---------------------------- MODULE Spec2Model ----------------------------
(***************************************************************************)
(* Viorazu Kotodama Defense System: the trust scoring ledger               *)
(* (trust_system.py), the attacker flag manager (manager.py) and the       *)
(* request path of the defense core (core.py, detector.py).                *)
(*                                                                         *)
(* Units.  Python floats are kept as scaled integers:                      *)
(*   a2_vulnerability_score          hundredths   (0.35 -> 35)             *)
(*   claude_attack_multipliers       tenths       (1.5  -> 15)             *)
(*   structure_responsibility_score  thousandths  (1.0  -> 1000)           *)
(*   recovery_resistance             tenths       (1.0  -> 10)             *)
(*   detection sensitivity           1e-7         (1.0  -> 10^7)           *)
(* int(x) of Python truncates toward zero (TruncDiv).                      *)
(* The clock counts whole days; a decimal timestamp would count seconds.   *)
(***************************************************************************)
EXTENDS Integers, Sequences, FiniteSets, TLC

VARIABLES
    user_trusts,        \* ViorazuTrustScoringSystemV91.user_trusts : user_id -> UserTrust
    global_violations,  \* global_trust_stats['total_violations']
    now,                \* wall clock, in days
    ret,                \* outcome of the last ledger call (return value or raised exception)
    burst,              \* the violation a scripted burst repeats (same severity and category)
    threads,            \* per thread: position and locals inside reduce_trust_v91
    user_profiles,      \* AttackerFlagManager.user_profiles : user_id -> UserRiskProfile
    system_stats,       \* ViorazuKotodamaDefenseSystem.system_stats
    last_result,        \* the DetectionResult analyze_content returned last
    verdicts,           \* per user: the DetectionResult last returned for that user
    triggered,          \* per user: the requests that reached process_attack_detection
                        \* and the trust score the manager held after the first of them
    purification_cache, \* KotodamaNormalizer.purification_cache : text -> NormalizationResult
    normalization_result, \* the NormalizationResult normalize returned last
    pending_text,       \* the text handed to normalize last (a request) or next (a
                        \* caller that normalizes the normalized text again)
    detection_cache,    \* KotodamaPoisonDetector.detection_cache : key -> (results, timestamp)
    clock,              \* time.time(), in seconds
    served,             \* what the caches did for the last request
    invoked,            \* the function called and the arguments of the call
    returned,           \* what the call returned (NotReturned before the call)
    tasks,              \* per request: its ProcessingTask, its future and its response
    priority_queue,     \* ViorazuPipelineEngine.priority_queue: the tasks enqueued
    active_tasks,       \* performance_metrics['active_tasks']
    ready_workers       \* the _worker coroutines created that have not run yet

thread_vars == <<threads>>
core_vars == <<user_profiles, system_stats, last_result, verdicts, triggered>>
normalizer_vars == <<purification_cache, normalization_result, pending_text>>
cache_vars == <<detection_cache, clock, served>>
call_vars == <<invoked, returned>>
pipeline_vars == <<tasks, priority_queue, active_tasks, ready_workers>>
component_vars == <<normalizer_vars, cache_vars, call_vars, pipeline_vars>>
request_vars == <<user_trusts, global_violations, now, ret, burst, thread_vars, core_vars>>
vars == <<request_vars, component_vars>>

-----------------------------------------------------------------------------
(* Bounds of the model *)

MaxViolations == 2      \* violations recorded in one run of Spec, all users together
MaxNow == 14            \* last day the clock reaches
MaxBurst == 4           \* violations in one scripted burst of SpecBurst
MaxRequests == 5        \* requests analysed in one run of SpecCore
MaxMatches == 3         \* patterns of one category a request text matches

MaxTextLen == 3         \* tokens of a text handed to the normalizer
MaxNormalizations == 2  \* calls of normalize in one run of SpecNormalizer
MaxClock == 5400        \* last second the clock of SpecText reaches
MaxSystems == 3         \* defense systems the coordinator executes for one request
MaxTasks == 3           \* requests made to the pipeline engine

ClockStep == 1800       \* the clock of SpecText advances in steps of half an hour

TickDays == 7           \* the clock advances in steps of one week

\* ViorazuPipelineEngine(max_workers=2): the workers and threads of the engine
max_workers == 2

Users == {"u1", "u2"}

-----------------------------------------------------------------------------
(* Arithmetic helpers *)

Max2(a, b) == IF a >= b THEN a ELSE b
Min2(a, b) == IF a <= b THEN a ELSE b

\* int(n / d) for d > 0: Python's int() truncates toward zero
TruncDiv(n, d) == IF n >= 0 THEN n \div d ELSE -((-n) \div d)

-----------------------------------------------------------------------------
(* Timestamps: utils.get_current_timestamp and Python's int(str) *)

\* datetime.now().isoformat(): a string such as "2025-07-11T10:00:00.123456"
get_current_timestamp(t) == [fmt |-> "iso", t |-> t]

\* last_violation = None
NoTimestamp == [fmt |-> "none", t |-> 0]

SecondsPerDay == 86400

\* int(s) of a string: only a decimal literal parses, anything else raises ValueError
PyInt(s) == IF s.fmt = "decimal"
            THEN [ok |-> TRUE, val |-> s.t * SecondsPerDay]
            ELSE [ok |-> FALSE, val |-> 0]

-----------------------------------------------------------------------------
(* Configuration tables of ViorazuTrustScoringSystemV91.__init__ *)

AttackSeverity == {"MINIMAL", "MILD", "MODERATE", "SEVERE", "CRITICAL",
                   "A2_CONSTRUCTOR", "FINANCIAL_PRESSURE"}

\* penalty_config; .get(severity, -10)
penalty_config(sev) ==
    CASE sev = "MINIMAL" -> -2
      [] sev = "MILD" -> -5
      [] sev = "MODERATE" -> -12
      [] sev = "SEVERE" -> -25
      [] sev = "CRITICAL" -> -40
      [] sev = "A2_CONSTRUCTOR" -> -60
      [] sev = "FINANCIAL_PRESSURE" -> -50
      [] OTHER -> -10

AttackTypes == {"academic_camouflage", "creative_boundary", "emotional_manipulation",
                "ai_competition", "payment_claim", "financial_pressure",
                "syntax_poison", "escalation_pattern", "unknown"}

\* claude_attack_multipliers, in tenths; .get(attack_type, 1.0)
claude_attack_multipliers(ty) ==
    CASE ty = "academic_camouflage" -> 15
      [] ty = "creative_boundary" -> 13
      [] ty = "emotional_manipulation" -> 18
      [] ty = "ai_competition" -> 12
      [] ty = "payment_claim" -> 20
      [] ty = "financial_pressure" -> 22
      [] ty = "syntax_poison" -> 17
      [] ty = "escalation_pattern" -> 16
      [] OTHER -> 10

\* trust_level_thresholds, scanned from the highest threshold down
TrustThresholds == <<100, 85, 70, 55, 40, 25, 15, 5, 0>>

TrustLevelName(th) ==
    CASE th = 100 -> "PRISTINE"
      [] th = 85 -> "NORMAL"
      [] th = 70 -> "SLIGHTLY_SUSPICIOUS"
      [] th = 55 -> "SUSPICIOUS"
      [] th = 40 -> "HIGH_RISK"
      [] th = 25 -> "DANGEROUS"
      [] th = 15 -> "A2_VULNERABILITY"
      [] th = 5 -> "CRITICAL_THREAT"
      [] OTHER -> "BLOCKED"

RECURSIVE ScanTrustLevel(_, _)
ScanTrustLevel(score, i) ==
    IF i > Len(TrustThresholds) THEN "BLOCKED"
    ELSE IF score >= TrustThresholds[i] THEN TrustLevelName(TrustThresholds[i])
    ELSE ScanTrustLevel(score, i + 1)

_calculate_trust_level(score) == ScanTrustLevel(score, 1)

\* warning_thresholds, scanned from the highest threshold down
WarningThresholds == <<100, 85, 70, 55, 40, 25, 15, 0>>

WarningLevelName(th) ==
    CASE th = 100 -> "NONE"
      [] th = 85 -> "WATCH"
      [] th = 70 -> "CAUTION"
      [] th = 55 -> "ALERT"
      [] th = 40 -> "HIGH_ALERT"
      [] th = 25 -> "CRITICAL"
      [] th = 15 -> "A2_PROTOCOL"
      [] OTHER -> "CRITICAL"

RECURSIVE ScanWarningLevel(_, _)
ScanWarningLevel(score, i) ==
    IF i > Len(WarningThresholds) THEN "CRITICAL"
    ELSE IF score >= WarningThresholds[i] THEN WarningLevelName(WarningThresholds[i])
    ELSE ScanWarningLevel(score, i + 1)

_calculate_warning_level(score) == ScanWarningLevel(score, 1)

\* recovery_config
base_recovery_rate == 5             \* 0.5 points a day, in tenths
max_recovery_score == 80
cooldown_days == 14
a2_recovery_penalty == 7            \* 0.7, in tenths
financial_recovery_penalty == 6     \* 0.6, in tenths

InitialScore == 100

-----------------------------------------------------------------------------
(* Texts.  A text is represented by the number of a2_detection_patterns it *)
(* matches in each of the three groups.                                    *)

Text(f, e, s) == [financial |-> f, evasion |-> e, structure |-> s]

EmptyText == Text(0, 0, 0)

\* "" ; one financial-pressure pattern ; one financial-pressure and one evasion pattern
Texts == {EmptyText, Text(1, 0, 0), Text(1, 1, 0)}

\* _calculate_a2_vulnerability, in hundredths
_calculate_a2_vulnerability(text) ==
    Min2(text.financial * 35 + text.evasion * 30 + text.structure * 35, 100)

\* the violations the callers in the specifications below report
SpecSeverities == {"MINIMAL", "A2_CONSTRUCTOR"}
SpecTypes == {"payment_claim", "unknown"}
SpecTexts == {EmptyText, Text(1, 1, 0)}

-----------------------------------------------------------------------------
(* UserTrust records and get_user_trust *)

\* the UserTrust that get_user_trust creates on first sight of a user_id
NewUserTrust ==
    [current_score |-> InitialScore,
     trust_level |-> "PRISTINE",
     warning_level |-> "NONE",
     total_violations |-> 0,
     consecutive_attacks |-> 0,
     trust_history |-> <<>>,
     last_violation |-> NoTimestamp,
     a2_vulnerability_score |-> 0,
     financial_pressure_count |-> 0,
     structure_responsibility_score |-> 1000,
     recovery_resistance |-> 10]

\* get_user_trust: the dictionary after the lookup (the record is created when absent)
get_user_trust(uts, u) ==
    IF u \in DOMAIN uts THEN uts ELSE uts @@ (u :> NewUserTrust)

-----------------------------------------------------------------------------
(* reduce_trust_v91 *)

\* a2_penalty = int(a2_vulnerability_score * -30)
a2_penalty(a2) == TruncDiv(a2 * (-30), 100)

\* the bound taken with max instead of min: the penalty grows by 3 per consecutive
\* attack and stops at -20
consecutive_penalty_capped(c) == Max2(c * (-3), -20)

\* consecutive_penalty = min(consecutive_attacks * -3, -20)
consecutive_penalty(c) == Min2(c * (-3), -20)

\* responsibility_penalty = int((1.0 - structure_responsibility_score) * -15)
responsibility_penalty(srs) == TruncDiv((1000 - srs) * (-15), 1000)

\* lines 259-264: int(base_penalty * claude_multiplier + a2_penalty
\*                    + consecutive_penalty + responsibility_penalty)
penalty_sum(sev, ty, text, cp, rp) ==
    TruncDiv(penalty_config(sev) * claude_attack_multipliers(ty)
               + 10 * (a2_penalty(_calculate_a2_vulnerability(text)) + cp + rp),
             10)

\* a sign slip: the penalty comes out positive and is added to the score
total_penalty_sign_slip(ut, sev, ty, text) ==
    - penalty_sum(sev, ty, text,
                  consecutive_penalty(ut.consecutive_attacks),
                  responsibility_penalty(ut.structure_responsibility_score))

\* total_penalty as reduce_trust_v91 computes it from the UserTrust it was handed
total_penalty(ut, sev, ty, text) ==
    penalty_sum(sev, ty, text,
                consecutive_penalty(ut.consecutive_attacks),
                responsibility_penalty(ut.structure_responsibility_score))

\* the TrustRecord appended by reduce_trust_v91
ReductionRecord(ts, penalty, new_score, ty, a2) ==
    [timestamp |-> ts, action |-> "trust_reduction_v91", score_change |-> penalty,
     new_score |-> new_score, attack_type |-> ty, a2_vulnerability_score |-> a2]

\* lines 272-291: the counters and scores a violation updates besides current_score
violation_bookkeeping(ut, sev, ty, text, ts) ==
    LET a2 == _calculate_a2_vulnerability(text)
    IN  [ut EXCEPT
           !.total_violations = @ + 1,
           !.consecutive_attacks = @ + 1,
           !.last_violation = ts,
           !.a2_vulnerability_score = Max2(@, a2),
           !.financial_pressure_count =
               IF ty \in {"payment_claim", "financial_pressure"} THEN @ + 1 ELSE @,
           !.structure_responsibility_score =
               IF a2 > 50 THEN Max2(0, @ - a2 * 3) ELSE @,
           !.recovery_resistance =
               IF sev \in {"A2_CONSTRUCTOR", "FINANCIAL_PRESSURE"} THEN Min2(@ + 2, 20) ELSE @]

\* the new score is computed and logged but never stored in the record
reduce_trust_v91_score_not_stored(ut, sev, ty, text, ts) ==
    LET a2 == _calculate_a2_vulnerability(text)
        penalty == total_penalty(ut, sev, ty, text)
        new_score == Max2(0, ut.current_score + penalty)
    IN  [violation_bookkeeping(ut, sev, ty, text, ts) EXCEPT
           !.trust_level = _calculate_trust_level(new_score),
           !.warning_level = _calculate_warning_level(new_score),
           !.trust_history = Append(@, ReductionRecord(ts, penalty, new_score, ty, a2))]

\* the levels are derived from the score before the penalty
reduce_trust_v91_stale_level(ut, sev, ty, text, ts) ==
    LET a2 == _calculate_a2_vulnerability(text)
        penalty == total_penalty(ut, sev, ty, text)
        new_score == Max2(0, ut.current_score + penalty)
    IN  [violation_bookkeeping(ut, sev, ty, text, ts) EXCEPT
           !.current_score = new_score,
           !.trust_level = _calculate_trust_level(ut.current_score),
           !.warning_level = _calculate_warning_level(ut.current_score),
           !.trust_history = Append(@, ReductionRecord(ts, penalty, new_score, ty, a2))]

\* the new score is stored without the floor max(0, ...)
reduce_trust_v91_no_floor(ut, sev, ty, text, ts) ==
    LET a2 == _calculate_a2_vulnerability(text)
        penalty == total_penalty(ut, sev, ty, text)
        new_score == ut.current_score + penalty
    IN  [violation_bookkeeping(ut, sev, ty, text, ts) EXCEPT
           !.current_score = new_score,
           !.trust_level = _calculate_trust_level(Max2(0, new_score)),
           !.warning_level = _calculate_warning_level(Max2(0, new_score)),
           !.trust_history = Append(@, ReductionRecord(ts, penalty, new_score, ty, a2))]

\* the UserTrust after reduce_trust_v91(user_id, attack_severity, attack_type, _, original_text)
reduce_trust_v91(ut, sev, ty, text, ts) ==
    LET a2 == _calculate_a2_vulnerability(text)
        penalty == total_penalty(ut, sev, ty, text)
        new_score == Max2(0, ut.current_score + penalty)
    IN  [violation_bookkeeping(ut, sev, ty, text, ts) EXCEPT
           !.current_score = new_score,
           !.trust_level = _calculate_trust_level(new_score),
           !.warning_level = _calculate_warning_level(new_score),
           !.trust_history = Append(@, ReductionRecord(ts, penalty, new_score, ty, a2))]

\* ret before the first call; "at" is the day of the call
NoRet == [op |-> "none", user |-> "none", outcome |-> "none", at |-> 0,
          old_score |-> 0, new_score |-> 0, value |-> 0]

\* one call of reduce_trust_v91
ReduceTrust(u, sev, ty, text) ==
    /\ LET uts == get_user_trust(user_trusts, u)
           ut1 == reduce_trust_v91(uts[u], sev, ty, text, get_current_timestamp(now))
       IN  /\ user_trusts' = [uts EXCEPT ![u] = ut1]
           /\ ret' = [op |-> "reduce_trust_v91", user |-> u, outcome |-> "returned",
                      at |-> now,
                      old_score |-> uts[u].current_score, new_score |-> ut1.current_score,
                      value |-> total_penalty(uts[u], sev, ty, text)]
    /\ global_violations' = global_violations + 1
    /\ UNCHANGED <<now, burst, component_vars, thread_vars, core_vars>>

-----------------------------------------------------------------------------
(* reset_consecutive_attacks *)

\* one call of reset_consecutive_attacks
ResetConsecutiveAttacks(u) ==
    /\ LET uts == get_user_trust(user_trusts, u)
       IN  user_trusts' = IF uts[u].consecutive_attacks > 0
                          THEN [uts EXCEPT ![u].consecutive_attacks = 0]
                          ELSE uts
    /\ ret' = [NoRet EXCEPT !.op = "reset_consecutive_attacks", !.user = u,
                            !.outcome = "returned", !.at = now]
    /\ UNCHANGED <<global_violations, now, burst, component_vars, thread_vars, core_vars>>

-----------------------------------------------------------------------------
(* apply_natural_recovery_v91 *)

\* base_recovery after the two penalties, in thousandths of a point
base_recovery(ut) ==
    LET r0 == base_recovery_rate * 100
        r1 == IF ut.a2_vulnerability_score > 50 THEN (r0 * a2_recovery_penalty) \div 10 ELSE r0
    IN  IF ut.financial_pressure_count > 0 THEN (r1 * financial_recovery_penalty) \div 10 ELSE r1

\* actual_recovery = base_recovery / recovery_resistance, in thousandths of a point
actual_recovery(ut) == (base_recovery(ut) * 10) \div ut.recovery_resistance

\* new_score = min(current_score + actual_recovery, max_recovery_score), in thousandths
recovered_score(ut) ==
    Min2(ut.current_score * 1000 + actual_recovery(ut), max_recovery_score * 1000)

\* the TrustRecord appended by apply_natural_recovery_v91
RecoveryRecord(ts, change, new_score) ==
    [timestamp |-> ts, action |-> "natural_recovery_v91", score_change |-> change,
     new_score |-> new_score, attack_type |-> "none", a2_vulnerability_score |-> 0]

\* the UserTrust after the recovery branch: current_score = int(new_score)
recover_trust_v91(ut, ts) ==
    LET new_int == TruncDiv(recovered_score(ut), 1000)
    IN  [ut EXCEPT
           !.current_score = new_int,
           !.trust_level = _calculate_trust_level(new_int),
           !.warning_level = _calculate_warning_level(new_int),
           !.trust_history =
               Append(@, RecoveryRecord(ts,
                          TruncDiv(recovered_score(ut) - ut.current_score * 1000, 1000),
                          new_int))]

\* one call of apply_natural_recovery_v91
ApplyNaturalRecovery(u) ==
    /\ LET uts == get_user_trust(user_trusts, u)
           ut == uts[u]
           t_now == PyInt(get_current_timestamp(now))
           t_last == PyInt(ut.last_violation)
           call == [NoRet EXCEPT !.op = "apply_natural_recovery_v91", !.user = u,
                                 !.at = now,
                                 !.old_score = ut.current_score,
                                 !.new_score = ut.current_score]
       IN  IF ut.last_violation = NoTimestamp
           THEN /\ user_trusts' = uts
                /\ ret' = [call EXCEPT !.outcome = "None"]
           ELSE IF ~(t_now.ok /\ t_last.ok)
           THEN \* int(self._get_timestamp()) raises before anything is written
                /\ user_trusts' = uts
                /\ ret' = [call EXCEPT !.outcome = "ValueError"]
           ELSE IF /\ t_now.val - t_last.val >= cooldown_days * SecondsPerDay
                   /\ ut.current_score < max_recovery_score
           THEN /\ user_trusts' =
                       [uts EXCEPT ![u] = recover_trust_v91(ut, get_current_timestamp(now))]
                /\ ret' = [call EXCEPT !.outcome = "recovery_applied",
                                       !.new_score = TruncDiv(recovered_score(ut), 1000),
                                       !.value = recovered_score(ut) - ut.current_score * 1000]
           ELSE /\ user_trusts' = uts
                /\ ret' = [call EXCEPT !.outcome = "None"]
    /\ UNCHANGED <<global_violations, now, burst, component_vars, thread_vars, core_vars>>

-----------------------------------------------------------------------------
(* get_detection_sensitivity_v91 *)

\* sensitivity_multipliers by trust level, in tenths; .get(level, 1.0)
sensitivity_multipliers(level) ==
    CASE level = "PRISTINE" -> 10
      [] level = "NORMAL" -> 11
      [] level = "SLIGHTLY_SUSPICIOUS" -> 14
      [] level = "SUSPICIOUS" -> 18
      [] level = "HIGH_RISK" -> 22
      [] level = "DANGEROUS" -> 28
      [] level = "A2_VULNERABILITY" -> 35
      [] level = "CRITICAL_THREAT" -> 40
      [] level = "BLOCKED" -> 50
      [] OTHER -> 10

MaxSensitivity == 100000000    \* min(total_sensitivity, 10.0), in units of 1e-7

\* the financial factor is taken from the wrong counter (consecutive_attacks)
get_detection_sensitivity_v91_wrong_counter(ut) ==
    Min2(sensitivity_multipliers(ut.trust_level)
           * (100 + ut.a2_vulnerability_score * 2)
           * (10 + ut.consecutive_attacks * 3)
           * (2000 - ut.structure_responsibility_score),
         MaxSensitivity)

\* the value get_detection_sensitivity_v91 returns for a UserTrust, in units of 1e-7
get_detection_sensitivity_v91(ut) ==
    Min2(sensitivity_multipliers(ut.trust_level)
           * (100 + ut.a2_vulnerability_score * 2)
           * (10 + ut.financial_pressure_count * 3)
           * (2000 - ut.structure_responsibility_score),
         MaxSensitivity)

\* one call of get_detection_sensitivity_v91
GetDetectionSensitivity(u) ==
    /\ LET uts == get_user_trust(user_trusts, u)
       IN  /\ user_trusts' = uts
           /\ ret' = [NoRet EXCEPT !.op = "get_detection_sensitivity_v91", !.user = u,
                                   !.outcome = "returned", !.at = now,
                                   !.old_score = uts[u].current_score,
                                   !.new_score = uts[u].current_score,
                                   !.value = get_detection_sensitivity_v91(uts[u])]
    /\ UNCHANGED <<global_violations, now, burst, component_vars, thread_vars, core_vars>>

-----------------------------------------------------------------------------
(* reduce_trust_v91 called from several threads (run_in_executor, pipeline  *)
(* workers).  The ledger holds no lock; a thread can be descheduled at      *)
(* every call the method makes, so each step below runs from one call to    *)
(* the next.                                                                *)

Threads == {"t1", "t2"}

\* a thread outside reduce_trust_v91
NoThread ==
    [pc |-> "idle", user |-> "none", sev |-> "none", ty |-> "none", text |-> EmptyText,
     ref |-> "none", obj |-> NewUserTrust,
     consecutive_penalty |-> 0, total_penalty |-> 0, old_score |-> 0, new_score |-> 0]

InFlight == {t \in Threads : threads[t].pc \notin {"idle", "done"}}

\* the UserTrust object the local variable user_trust of thread t refers to
user_trust(t) ==
    IF threads[t].ref = "dict" THEN user_trusts[threads[t].user] ELSE threads[t].obj

\* an attribute store through user_trust, followed by the thread's next position
StoreUserTrust(t, ut, pc) ==
    IF threads[t].ref = "dict"
    THEN /\ user_trusts' = [user_trusts EXCEPT ![threads[t].user] = ut]
         /\ threads' = [threads EXCEPT ![t].pc = pc]
    ELSE /\ user_trusts' = user_trusts
         /\ threads' = [threads EXCEPT ![t].pc = pc, ![t].obj = ut]

\* line 238: the call enters reduce_trust_v91
BeginReduceTrust(t, u, sev, ty, text) ==
    /\ threads[t].pc \in {"idle", "done"}
    /\ global_violations + Cardinality(InFlight) < MaxViolations
    /\ threads' = [threads EXCEPT ![t] =
                     [NoThread EXCEPT !.pc = "get_user_trust", !.user = u,
                                      !.sev = sev, !.ty = ty, !.text = text]]
    /\ UNCHANGED <<user_trusts, global_violations, now, ret, burst, component_vars, core_vars>>

\* line 206: if user_id not in self.user_trusts
GetUserTrustCheck(t) ==
    /\ threads[t].pc = "get_user_trust"
    /\ threads' = [threads EXCEPT ![t].pc =
                     IF threads[t].user \in DOMAIN user_trusts
                     THEN "return_user_trust" ELSE "create_user_trust"]
    /\ UNCHANGED <<user_trusts, global_violations, now, ret, burst, component_vars, core_vars>>

\* lines 207-224: self.user_trusts[user_id] = UserTrust(...); an object another
\* thread stored in the meantime is replaced, and that thread keeps its reference
GetUserTrustCreate(t) ==
    /\ threads[t].pc = "create_user_trust"
    /\ LET u == threads[t].user
       IN  /\ user_trusts' = (u :> NewUserTrust) @@ user_trusts
           /\ threads' =
                [s \in Threads |->
                   IF s = t THEN [threads[s] EXCEPT !.pc = "return_user_trust"]
                   ELSE IF threads[s].user = u /\ threads[s].ref = "dict"
                        THEN [threads[s] EXCEPT !.ref = "orphan", !.obj = user_trusts[u]]
                        ELSE threads[s]]
    /\ UNCHANGED <<global_violations, now, ret, burst, component_vars, core_vars>>

\* line 226: return self.user_trusts[user_id]
GetUserTrustReturn(t) ==
    /\ threads[t].pc = "return_user_trust"
    /\ threads' = [threads EXCEPT ![t].pc = "read_consecutive", ![t].ref = "dict"]
    /\ UNCHANGED <<user_trusts, global_violations, now, ret, burst, component_vars, core_vars>>

\* lines 241-253: consecutive_penalty = min(user_trust.consecutive_attacks * -3, -20)
ReadConsecutive(t) ==
    /\ threads[t].pc = "read_consecutive"
    /\ threads' = [threads EXCEPT
                     ![t].pc = "read_responsibility",
                     ![t].consecutive_penalty =
                         consecutive_penalty(user_trust(t).consecutive_attacks)]
    /\ UNCHANGED <<user_trusts, global_violations, now, ret, burst, component_vars, core_vars>>

\* lines 256-264: responsibility_penalty and total_penalty
ReadResponsibility(t) ==
    /\ threads[t].pc = "read_responsibility"
    /\ threads' = [threads EXCEPT
                     ![t].pc = "read_score",
                     ![t].total_penalty =
                         penalty_sum(threads[t].sev, threads[t].ty, threads[t].text,
                                     threads[t].consecutive_penalty,
                                     responsibility_penalty(
                                         user_trust(t).structure_responsibility_score))]
    /\ UNCHANGED <<user_trusts, global_violations, now, ret, burst, component_vars, core_vars>>

\* lines 267-268: old_score and new_score = max(0, current_score + total_penalty)
ReadScore(t) ==
    /\ threads[t].pc = "read_score"
    /\ threads' = [threads EXCEPT
                     ![t].pc = "write_user_trust",
                     ![t].old_score = user_trust(t).current_score,
                     ![t].new_score =
                         Max2(0, user_trust(t).current_score + threads[t].total_penalty)]
    /\ UNCHANGED <<user_trusts, global_violations, now, ret, burst, component_vars, core_vars>>

\* lines 271-291: current_score = new_score and the counters
WriteUserTrust(t) ==
    /\ threads[t].pc = "write_user_trust"
    /\ StoreUserTrust(t,
         [violation_bookkeeping(user_trust(t), threads[t].sev, threads[t].ty,
                                threads[t].text, get_current_timestamp(now))
            EXCEPT !.current_score = threads[t].new_score],
         "write_levels")
    /\ UNCHANGED <<global_violations, now, ret, burst, component_vars, core_vars>>

\* lines 294-295: trust_level and warning_level from new_score
WriteLevels(t) ==
    /\ threads[t].pc = "write_levels"
    /\ StoreUserTrust(t,
         [user_trust(t) EXCEPT
            !.trust_level = _calculate_trust_level(threads[t].new_score),
            !.warning_level = _calculate_warning_level(threads[t].new_score)],
         "append_history")
    /\ UNCHANGED <<global_violations, now, ret, burst, component_vars, core_vars>>

\* lines 298-351: the history record, the global statistics and the return value
AppendHistory(t) ==
    /\ threads[t].pc = "append_history"
    /\ StoreUserTrust(t,
         [user_trust(t) EXCEPT
            !.trust_history =
                Append(@, ReductionRecord(get_current_timestamp(now),
                                          threads[t].total_penalty, threads[t].new_score,
                                          threads[t].ty,
                                          _calculate_a2_vulnerability(threads[t].text)))],
         "done")
    /\ global_violations' = global_violations + 1
    /\ ret' = [op |-> "reduce_trust_v91", user |-> threads[t].user, outcome |-> "returned",
               at |-> now, old_score |-> threads[t].old_score,
               new_score |-> threads[t].new_score, value |-> threads[t].total_penalty]
    /\ UNCHANGED <<now, burst, component_vars, core_vars>>

-----------------------------------------------------------------------------
(* manager.py: AttackerFlagManager and KotodamaAttackerManagerV91.          *)
(* a2_vulnerability_level and confidence in hundredths, trust_score in      *)
(* units of 1e-4, sensitivity_multiplier in thousandths.                    *)

\* the module-level names manager.py binds (lines 19-38); re is not among them
manager_imports ==
    {"time", "json", "typing", "dataclasses", "datetime", "collections", "enum", "utils"}

\* AttackerFlagManager._calculate_a2_vulnerability: the first pattern evaluates
\* re.findall, and looking up the global name re raises NameError
flag_manager_calculate_a2_vulnerability(text) ==
    IF "re" \in manager_imports
    THEN [raised |-> "none",
          value |-> Min2(text.financial * 30 + text.evasion * 25 + text.structure * 35, 100)]
    ELSE [raised |-> "NameError", value |-> 0]

\* _create_new_user_profile
NewUserProfile ==
    [attacker_level |-> "NORMAL_USER",
     total_attacks |-> 0,
     last_attack |-> NoTimestamp,
     consecutive_attacks |-> 0,
     trust_score |-> 10000,
     sensitivity_multiplier |-> 1000,
     a2_vulnerability_level |-> 0,
     financial_pressure_count |-> 0]

\* _update_consecutive_attacks, given the timestamp of the attack before this one:
\* attacks at most one hour apart count as consecutive (timestamps are in days)
_update_consecutive_attacks(profile, prev_attack) ==
    IF profile.total_attacks < 2
    THEN [profile EXCEPT !.consecutive_attacks = profile.total_attacks]
    ELSE IF (profile.last_attack.t - prev_attack.t) * 24 <= 1
         THEN [profile EXCEPT !.consecutive_attacks = @ + 1]
         ELSE [profile EXCEPT !.consecutive_attacks = 1]

\* _calculate_attacker_level_v91 (the permanent_threat flag is never set before it)
_calculate_attacker_level_v91(profile) ==
    IF profile.a2_vulnerability_level >= 70 \/ profile.financial_pressure_count >= 3
        THEN "A2_VULNERABILITY"
    ELSE IF profile.consecutive_attacks >= 5 THEN "SERIAL_ATTACKER"
    ELSE IF profile.total_attacks >= 10 THEN "SERIAL_ATTACKER"
    ELSE IF profile.total_attacks >= 5 THEN "REPEAT_OFFENDER"
    ELSE IF profile.total_attacks >= 2 THEN "FLAGGED_ONCE"
    ELSE IF profile.total_attacks = 1 THEN "SUSPICIOUS"
    ELSE "NORMAL_USER"

\* penalty_base of _adjust_trust_score_v91, in hundredths; .get(threat_level, 0.1)
penalty_base(threat_level) ==
    CASE threat_level = "LOW" -> 5
      [] threat_level = "MEDIUM" -> 10
      [] threat_level = "HIGH" -> 20
      [] threat_level = "CRITICAL" -> 30
      [] threat_level = "EMERGENCY" -> 50
      [] OTHER -> 10

\* _adjust_trust_score_v91: the penalty of the attack, then 0.05 for each
\* consecutive attack after the first
_adjust_trust_score_v91(profile, confidence, threat_level, a2) ==
    LET after_attack == Max2(0, profile.trust_score
                                  - (penalty_base(threat_level) * confidence + a2 * 40))
    IN  [profile EXCEPT !.trust_score =
            IF profile.consecutive_attacks > 1
            THEN Max2(0, after_attack - (profile.consecutive_attacks - 1) * 500)
            ELSE after_attack]

\* level_multipliers of _adjust_sensitivity_multiplier_v91, in tenths
level_multipliers(level) ==
    CASE level = "NORMAL_USER" -> 10
      [] level = "SUSPICIOUS" -> 12
      [] level = "FLAGGED_ONCE" -> 15
      [] level = "REPEAT_OFFENDER" -> 20
      [] level = "SERIAL_ATTACKER" -> 30
      [] level = "A2_VULNERABILITY" -> 40
      [] level = "PERMANENT_THREAT" -> 50
      [] OTHER -> 10

\* _adjust_sensitivity_multiplier_v91: 2.0 * level multiplier * (1 + 2 * a2 level)
_adjust_sensitivity_multiplier_v91(profile) ==
    [profile EXCEPT !.sensitivity_multiplier =
        2 * level_multipliers(profile.attacker_level)
          * (100 + 2 * profile.a2_vulnerability_level)]

\* flag_attacker: the profiles afterwards and the exception raised, if any.
\* Line 170 raises before a profile is created or changed; of the lines after it
\* the counters, the level, the trust score and the sensitivity are modelled.
flag_attacker(profiles, u, attack_type, threat_level, confidence, text, ts) ==
    LET a2 == flag_manager_calculate_a2_vulnerability(text)
        p0 == IF u \in DOMAIN profiles THEN profiles[u] ELSE NewUserProfile
        p1 == [p0 EXCEPT
                 !.total_attacks = @ + 1,
                 !.last_attack = ts,
                 !.a2_vulnerability_level = Max2(@, a2.value),
                 !.financial_pressure_count =
                     IF attack_type \in {"payment_claim", "financial_pressure"}
                     THEN @ + 1 ELSE @]
        p2 == _update_consecutive_attacks(p1, p0.last_attack)
        p3 == [p2 EXCEPT !.attacker_level = _calculate_attacker_level_v91(p2)]
        p4 == _adjust_trust_score_v91(p3, confidence, threat_level, a2.value)
    IN  IF a2.raised /= "none"
        THEN [raised |-> a2.raised, user_profiles |-> profiles]
        ELSE [raised |-> "none",
              user_profiles |->
                  (u :> _adjust_sensitivity_multiplier_v91(p4)) @@ profiles]

\* process_attack_detection: flag_attacker, whose exception propagates
process_attack_detection(profiles, u, attack_type, threat_level, confidence, text, ts) ==
    flag_attacker(profiles, u, attack_type, threat_level, confidence, text, ts)

\* get_sensitivity_multiplier
get_sensitivity_multiplier(profiles, u) ==
    IF u \in DOMAIN profiles THEN profiles[u].sensitivity_multiplier ELSE 1000

\* get_user_security_context; without a profile the dictionary has no
\* consecutive_attacks entry, which reads as 0 here
get_user_security_context(profiles, u) ==
    IF u \in DOMAIN profiles
    THEN [attacker_level |-> profiles[u].attacker_level,
          trust_score |-> profiles[u].trust_score,
          sensitivity_multiplier |-> profiles[u].sensitivity_multiplier,
          attack_count |-> profiles[u].total_attacks,
          consecutive_attacks |-> profiles[u].consecutive_attacks]
    ELSE [attacker_level |-> "NORMAL_USER",
          trust_score |-> 10000,
          sensitivity_multiplier |-> 1000,
          attack_count |-> 0,
          consecutive_attacks |-> 0]

-----------------------------------------------------------------------------
(* core.py: analyze_content, with the detector, the integrated processor    *)
(* and the virtue judge it calls.  Confidence is in tenths, stage scores of *)
(* the escalation detector in hundredths, its severity in units of 1e-4,    *)
(* the virtue score in thousandths.  Requests carry no media metadata and   *)
(* no system_context.                                                        *)

\* ThreatLevel.value
ThreatLevelValue(level) ==
    CASE level = "SAFE" -> 0
      [] level = "LOW" -> 1
      [] level = "MEDIUM" -> 2
      [] level = "HIGH" -> 3
      [] level = "CRITICAL" -> 4
      [] level = "EMERGENCY" -> 5

\* ActionLevel.value is a string ("allow", "block", "monitor", "restrict", "shield",
\* "terminate"); the code compares these values with < and >=, that is, in
\* lexicographic order.  The rank of each value in that order:
ActionLevelValue(action) ==
    CASE action = "ALLOW" -> 0
      [] action = "BLOCK" -> 1
      [] action = "MONITOR" -> 2
      [] action = "RESTRICT" -> 3
      [] action = "SHIELD" -> 4
      [] action = "TERMINATE" -> 5

\* EthicsLevel.value
EthicsLevelValue(level) ==
    CASE level = "VIRTUOUS" -> 5
      [] level = "CONSTRUCTIVE" -> 4
      [] level = "NEUTRAL" -> 3
      [] level = "CONCERNING" -> 2
      [] level = "HARMFUL" -> 1
      [] level = "DESTRUCTIVE" -> 0

\* static pattern categories of SyntaxPoisonPatterns a text can match
Categories == {"A2_leading_questions", "A3_emotional_manipulation", "D1_ethical_relativism"}

\* the group (A_PATTERNS .. D_PATTERNS) a category belongs to
GroupOf(category) ==
    CASE category \in {"A2_leading_questions", "A3_emotional_manipulation"} -> "A"
      [] category = "D1_ethical_relativism" -> "D"
      [] OTHER -> "none"

\* the Claude-specific attack names of _determine_recommended_action
claude_specific_attacks ==
    {"academic_camouflage", "creative_boundary", "emotional_manipulation", "ai_competition"}

\* the names of claude_specific_attacks that occur in the poison type
\* f"{group}_{category}" as substrings
AttacksNamedIn(category) ==
    IF category = "A3_emotional_manipulation" THEN {"emotional_manipulation"} ELSE {}

\* a conversation history as the escalation detector sees it: the number of
\* messages and, per stage, the pattern matches in the last ten of them
History(n, t, d, b, e) ==
    [messages |-> n, trust_building |-> t, dependency_creation |-> d,
     boundary_testing |-> b, escalation_execution |-> e]

NoHistory == History(0, 0, 0, 0, 0)

\* no history, a history with some trust building and dependency, and a history
\* with every stage saturated
Histories == {NoHistory, History(3, 7, 7, 2, 0), History(10, 20, 20, 10, 10)}

\* the stage _identify_current_stage gives the request text
CurrentStages == {"unknown"}

\* the (word power + relationship impact) / 2 of a text, in hundredths
Tones == {-75, 0, 30, 100}

\* what a request text is to the stages below: the action the dominance detector
\* recommends when it fires ("none" when it does not), the static category the text
\* matches and the number of its patterns matched, its tone, its A-2 pattern
\* matches, and the conversation history passed with it
Contents ==
    [dominance : {"none", "SHIELD", "BLOCK"}, category : Categories,
     matches : 0..MaxMatches, tone : Tones, text : SpecTexts, history : Histories,
     current_stage : CurrentStages]

\* the content of the result before the first request
NoContent ==
    [dominance |-> "none", category |-> "none", matches |-> 0, tone |-> 0,
     text |-> EmptyText, history |-> NoHistory, current_stage |-> "unknown"]

\* detector._determine_severity
_determine_severity(group, confidence) ==
    IF confidence >= 8 THEN "CRITICAL"
    ELSE IF confidence >= 6 THEN "HIGH"
    ELSE CASE group = "A" -> "MEDIUM"
           [] group \in {"B", "C"} -> "HIGH"
           [] group = "D" -> "CRITICAL"
           [] OTHER -> "MEDIUM"

\* detector._check_pattern_category: 0.3 per matched pattern, capped at 1.0 in the
\* result; the sequence is empty when nothing matches.  poison_type stands for
\* f"{group}_{category}".
_check_pattern_category(matches, category, group) ==
    IF matches = 0 THEN <<>>
    ELSE << [poison_type |-> category, confidence |-> Min2(3 * matches, 10),
             severity |-> _determine_severity(group, 3 * matches)] >>

\* detector.detect_all_threats(text, context, user_history): it has no parameter
\* for a sensitivity; with one category matched the consolidated list is that result
detect_all_threats(content) ==
    _check_pattern_category(content.matches, content.category, GroupOf(content.category))

\* EscalationDetector._calculate_stage_score: matches / (2 * number of patterns),
\* capped at 1.0
_calculate_stage_score(matches, patterns) == Min2((matches * 100) \div (2 * patterns), 100)

\* the four stage scores of a history (7, 7, 5 and 5 patterns)
stage_scores(history) ==
    [trust_building |-> _calculate_stage_score(history.trust_building, 7),
     dependency_creation |-> _calculate_stage_score(history.dependency_creation, 7),
     boundary_testing |-> _calculate_stage_score(history.boundary_testing, 5),
     escalation_execution |-> _calculate_stage_score(history.escalation_execution, 5)]

\* EscalationDetector._detect_escalation_pattern
_detect_escalation_pattern(scores, current_stage) ==
    \/ /\ scores.trust_building > 30
       /\ scores.dependency_creation > 20
       /\ (scores.boundary_testing > 10 \/ scores.escalation_execution > 10)
    \/ /\ current_stage = "escalation_execution"
       /\ scores.escalation_execution > 50

\* EscalationDetector._calculate_escalation_severity
_calculate_escalation_severity(scores) ==
    Min2(20 * scores.trust_building + 30 * scores.dependency_creation
           + 25 * scores.boundary_testing + 25 * scores.escalation_execution, 10000)

\* EscalationDetector._recommend_escalation_action
_recommend_escalation_action(scores, current_stage) ==
    IF current_stage = "escalation_execution" \/ scores.escalation_execution > 70 THEN "BLOCK"
    ELSE IF scores.boundary_testing > 50 THEN "SHIELD"
    ELSE IF scores.dependency_creation > 50 THEN "RESTRICT"
    ELSE "MONITOR"

\* the escalation_analysis of a request without a detected escalation (None)
NoEscalation ==
    [escalation_detected |-> FALSE, escalation_severity |-> 0, recommended_action |-> "none"]

\* EscalationDetector.analyze_conversation_escalation, called when the history is
\* not empty
analyze_conversation_escalation(current_stage, history) ==
    IF history.messages = 0 THEN NoEscalation
    ELSE IF _detect_escalation_pattern(stage_scores(history), current_stage)
         THEN [escalation_detected |-> TRUE,
               escalation_severity |-> _calculate_escalation_severity(stage_scores(history)),
               recommended_action |->
                   _recommend_escalation_action(stage_scores(history), current_stage)]
         ELSE NoEscalation

RECURSIVE MaxSeverity(_, _, _)
MaxSeverity(results, i, max_threat) ==
    IF i > Len(results) THEN max_threat
    ELSE MaxSeverity(results, i + 1,
                     IF ThreatLevelValue(results[i].severity) > ThreatLevelValue(max_threat)
                     THEN results[i].severity ELSE max_threat)

\* processor._calculate_final_threat_level: the largest severity of the text
\* threats, raised to HIGH by an escalation of severity 0.7 or more
_calculate_final_threat_level(results, escalation_analysis) ==
    LET max_threat == MaxSeverity(results, 1, "SAFE")
    IN  IF /\ escalation_analysis.escalation_detected
           /\ escalation_analysis.escalation_severity >= 7000
           /\ ThreatLevelValue(max_threat) < ThreatLevelValue("HIGH")
        THEN "HIGH" ELSE max_threat

\* base_actions of _determine_recommended_action; .get(threat_level, RESTRICT)
base_actions(threat_level) ==
    CASE threat_level = "SAFE" -> "ALLOW"
      [] threat_level = "LOW" -> "MONITOR"
      [] threat_level = "MEDIUM" -> "RESTRICT"
      [] threat_level = "HIGH" -> "SHIELD"
      [] threat_level = "CRITICAL" -> "BLOCK"
      [] threat_level = "EMERGENCY" -> "TERMINATE"
      [] OTHER -> "RESTRICT"

\* processor._determine_recommended_action: the base action, SHIELD for a
\* Claude-specific attack whose base action compares below SHIELD, and the action
\* the escalation analysis recommends when it compares above
_determine_recommended_action(threat_level, results, escalation_analysis) ==
    LET base_action == base_actions(threat_level)
        specific == \E i \in 1..Len(results) :
                        AttacksNamedIn(results[i].poison_type) \cap claude_specific_attacks # {}
        after_specific == IF specific /\ ActionLevelValue(base_action) < ActionLevelValue("SHIELD")
                          THEN "SHIELD" ELSE base_action
    IN  IF /\ escalation_analysis.escalation_detected
           /\ ActionLevelValue(escalation_analysis.recommended_action)
                 > ActionLevelValue(after_specific)
        THEN escalation_analysis.recommended_action
        ELSE after_specific

\* processor._calculate_confidence_score without media: 0.7 times the largest
\* confidence of the text threats, in hundredths
_calculate_confidence_score(results) ==
    IF Len(results) = 0 THEN 0 ELSE Min2(7 * results[1].confidence, 100)

\* ethics._integrate_threat_information
_integrate_threat_information(results) ==
    [has_threats |-> Len(results) > 0,
     max_confidence |-> IF Len(results) > 0 THEN results[1].confidence ELSE 0]

\* ethics._calculate_virtue_score
_calculate_virtue_score(tone, threat_integration) ==
    LET base_score == tone * 10 - (IF threat_integration.has_threats
                                   THEN threat_integration.max_confidence * 80 ELSE 0)
    IN  Max2(0, Min2(1000, (base_score + 1000) \div 2))

\* ethics._determine_ethics_level
_determine_ethics_level(virtue_score, threat_integration) ==
    IF threat_integration.has_threats /\ threat_integration.max_confidence >= 8
        THEN "DESTRUCTIVE"
    ELSE IF threat_integration.has_threats /\ threat_integration.max_confidence >= 6
        THEN "HARMFUL"
    ELSE IF threat_integration.has_threats /\ threat_integration.max_confidence >= 4
        THEN "CONCERNING"
    ELSE IF virtue_score >= 800 THEN "VIRTUOUS"
    ELSE IF virtue_score >= 600 THEN "CONSTRUCTIVE"
    ELSE IF virtue_score >= 400 THEN "NEUTRAL"
    ELSE IF virtue_score >= 200 THEN "CONCERNING"
    ELSE "HARMFUL"

\* ethics.conduct_ethics_analysis: the ethics level
conduct_ethics_analysis(content, results) ==
    _determine_ethics_level(
        _calculate_virtue_score(content.tone, _integrate_threat_information(results)),
        _integrate_threat_information(results))

\* ethics.action_mapping
action_mapping(ethics_level) ==
    CASE ethics_level \in {"VIRTUOUS", "CONSTRUCTIVE"} -> "ALLOW"
      [] ethics_level = "NEUTRAL" -> "MONITOR"
      [] ethics_level = "CONCERNING" -> "RESTRICT"
      [] ethics_level = "HARMFUL" -> "SHIELD"
      [] ethics_level = "DESTRUCTIVE" -> "BLOCK"
      [] OTHER -> "RESTRICT"

\* ethics._integrate_with_technical_analysis
_integrate_with_technical_analysis(base_action, technical_action, ethics_level) ==
    IF ethics_level = "DESTRUCTIVE" THEN "BLOCK"
    ELSE IF ethics_level = "VIRTUOUS"
         THEN IF ActionLevelValue(technical_action) > ActionLevelValue("RESTRICT")
              THEN "RESTRICT" ELSE technical_action
    ELSE IF ActionLevelValue(base_action) > ActionLevelValue(technical_action)
         THEN base_action ELSE technical_action

\* ethics.make_final_judgment: the final action
make_final_judgment(ethics_level, technical_action) ==
    _integrate_with_technical_analysis(action_mapping(ethics_level), technical_action,
                                       ethics_level)

\* the result before the first request.  sensitivity_at_start and score_at_start
\* are not fields of DetectionResult: they record the sensitivity_multiplier of the
\* security context read at step 1 and the score the trust ledger held for the
\* user when the request was made; handler is the outcome of
\* process_attack_detection ("none" when it was not called).
NoResult ==
    [user |-> "none", content |-> NoContent, threat_detected |-> FALSE,
     threat_level |-> "SAFE", action_level |-> "ALLOW", detections |-> <<>>,
     escalation_detected |-> FALSE, ethics_level |-> "none", error |-> "none",
     sensitivity_at_start |-> 0, score_at_start |-> 0, handler |-> "none"]

\* _create_dominance_syntax_blocked_result: returned before the security context is read
_create_dominance_syntax_blocked_result(u, content) ==
    [NoResult EXCEPT !.user = u, !.content = content, !.threat_detected = TRUE,
                     !.threat_level = "HIGH", !.action_level = content.dominance]

\* the error result lets the request through
_create_error_result_allow(u, content, error_message) ==
    [NoResult EXCEPT !.user = u, !.content = content, !.threat_detected = FALSE,
                     !.threat_level = "SAFE", !.action_level = "ALLOW",
                     !.error = error_message]

\* _create_error_result
_create_error_result(u, content, error_message) ==
    [NoResult EXCEPT !.user = u, !.content = content, !.threat_detected = FALSE,
                     !.threat_level = "SAFE", !.action_level = "MONITOR",
                     !.error = error_message]

\* a final result whose action is relaxed to MONITOR for a user whose ledger score
\* has fallen below the SUSPICIOUS threshold
_create_final_detection_result_relaxed(u, content, security_context) ==
    LET results == detect_all_threats(content)
        escalation_analysis ==
            analyze_conversation_escalation(content.current_stage, content.history)
        threat_level == _calculate_final_threat_level(results, escalation_analysis)
        recommended_action ==
            _determine_recommended_action(threat_level, results, escalation_analysis)
        ethics_level == conduct_ethics_analysis(content, results)
        score == IF u \in DOMAIN user_trusts THEN user_trusts[u].current_score
                 ELSE InitialScore
    IN  [NoResult EXCEPT
           !.user = u,
           !.content = content,
           !.threat_detected = Len(results) > 0 \/ EthicsLevelValue(ethics_level) <= 2,
           !.threat_level = threat_level,
           !.action_level = IF score < 55 THEN "MONITOR"
                            ELSE make_final_judgment(ethics_level, recommended_action),
           !.detections = results,
           !.escalation_detected = escalation_analysis.escalation_detected,
           !.ethics_level = ethics_level,
           !.sensitivity_at_start = security_context.sensitivity_multiplier]

\* steps 4 to 7 of analyze_content for the detection results of step 3:
\* integrated analysis, final judgment and _create_final_detection_result
FinalResultFor(u, content, security_context, results) ==
    LET escalation_analysis ==
            analyze_conversation_escalation(content.current_stage, content.history)
        threat_level == _calculate_final_threat_level(results, escalation_analysis)
        recommended_action ==
            _determine_recommended_action(threat_level, results, escalation_analysis)
        ethics_level == conduct_ethics_analysis(content, results)
    IN  [NoResult EXCEPT
           !.user = u,
           !.content = content,
           !.threat_detected = Len(results) > 0 \/ EthicsLevelValue(ethics_level) <= 2,
           !.threat_level = threat_level,
           !.action_level = make_final_judgment(ethics_level, recommended_action),
           !.detections = results,
           !.escalation_detected = escalation_analysis.escalation_detected,
           !.ethics_level = ethics_level,
           !.sensitivity_at_start = security_context.sensitivity_multiplier]

\* steps 3 to 7 of analyze_content: detection, integrated analysis, final
\* judgment and _create_final_detection_result
_create_final_detection_result(u, content, security_context) ==
    FinalResultFor(u, content, security_context, detect_all_threats(content))

\* whether _handle_inappropriate_content hands the result to the attacker manager:
\* action_level.value >= ActionLevel.RESTRICT.value
ReachesAttackerManager(result) ==
    /\ result.threat_detected
    /\ ActionLevelValue(result.action_level) >= ActionLevelValue("RESTRICT")

\* a user_id that cannot be a dictionary key (a list): the lookup of the profile
\* raises TypeError
UnhashableUserId == "unhashable"

UserIds == Users \cup {UnhashableUserId}

\* the result returned last to each user, after this result
Returned(u, result) == IF u \in Users THEN [verdicts EXCEPT ![u] = result] ELSE verdicts

\* steps 0, 1 and 7 to 9 of analyze_content for a user and a text: the dominance
\* check, the lookup of the security context, and the handling of the final result
\* `computed` that steps 3 to 7 give for the text
AnalyzeSteps(u, content, computed) ==
    /\ LET score == IF u \in DOMAIN user_trusts THEN user_trusts[u].current_score
                    ELSE InitialScore
       IN
       IF content.dominance /= "none"
       THEN LET result == [_create_dominance_syntax_blocked_result(u, content)
                             EXCEPT !.score_at_start = score]
            IN  /\ system_stats' = [system_stats EXCEPT !.total_analyses = @ + 1,
                                                       !.dominance_syntax_blocked = @ + 1]
                /\ last_result' = result
                /\ verdicts' = Returned(u, result)
                /\ UNCHANGED <<user_profiles, triggered>>
       ELSE IF u = UnhashableUserId
       THEN \* get_user_security_context raises; caught at line 787
            /\ system_stats' = [system_stats EXCEPT !.total_analyses = @ + 1]
            /\ last_result' = [_create_error_result(u, content, "TypeError")
                                 EXCEPT !.score_at_start = score]
            /\ UNCHANGED <<user_profiles, triggered, verdicts>>
       ELSE LET security_context == get_user_security_context(user_profiles, u)
                final_result == [computed EXCEPT !.score_at_start = score]
                attack_type == IF Len(final_result.detections) > 0
                               THEN final_result.detections[1].poison_type ELSE "unknown"
                managed == process_attack_detection(user_profiles, u, attack_type,
                               final_result.threat_level,
                               _calculate_confidence_score(final_result.detections),
                               content.text, get_current_timestamp(now))
            IN  IF ~final_result.threat_detected
                THEN /\ system_stats' = [system_stats EXCEPT !.total_analyses = @ + 1]
                     /\ last_result' = final_result
                     /\ verdicts' = Returned(u, final_result)
                     /\ UNCHANGED <<user_profiles, triggered>>
                ELSE /\ system_stats' =
                          [system_stats EXCEPT
                             !.total_analyses = @ + 1,
                             !.threats_detected = @ + 1,
                             !.threats_resolved =
                                 IF final_result.action_level \in {"RESTRICT", "SHIELD", "BLOCK"}
                                 THEN @ + 1 ELSE @,
                             !.users_guided =
                                 IF /\ ReachesAttackerManager(final_result)
                                    /\ managed.raised = "none"
                                    /\ managed.user_profiles[u].total_attacks <= 1
                                 THEN @ + 1 ELSE @]
                     /\ IF ReachesAttackerManager(final_result)
                        THEN \* an exception of the manager is caught and logged (line 1044)
                             LET result == [final_result EXCEPT !.handler =
                                               IF managed.raised = "none" THEN "managed"
                                               ELSE managed.raised]
                             IN  /\ user_profiles' = managed.user_profiles
                                 /\ triggered' =
                                      [triggered EXCEPT ![u] =
                                         [count |-> @.count + 1,
                                          score_after_first |->
                                              IF @.count = 0
                                              THEN get_user_security_context(
                                                       managed.user_profiles, u).trust_score
                                              ELSE @.score_after_first]]
                                 /\ last_result' = result
                                 /\ verdicts' = Returned(u, result)
                        ELSE /\ last_result' = final_result
                             /\ verdicts' = Returned(u, final_result)
                             /\ UNCHANGED <<user_profiles, triggered>>
    /\ UNCHANGED <<user_trusts, global_violations, now, ret, burst, thread_vars>>

\* one call of analyze_content(user_id, text, conversation_history=history) for a
\* text in normal form, the caches of the normalizer and the detector left aside
AnalyzeContent(u, content) ==
    /\ AnalyzeSteps(u, content,
                    _create_final_detection_result(
                        u, content, get_user_security_context(user_profiles, u)))
    /\ UNCHANGED component_vars

-----------------------------------------------------------------------------
(* normalizer.py: KotodamaNormalizer.  A text is a run of `padding` plain   *)
(* characters followed by a sequence of tokens: "w" a plain character, "nya" *)
(* and "yon" the cute endings にゃ and よん, "maru" the full stop 。, "sp" a   *)
(* space, "masked" a masked word (f*ck) and "restored" the word behind it.   *)

Tokens == {"w", "nya", "yon", "maru", "sp", "masked"}

\* the character class [。！？\s] of the ending patterns
IsPunctuation(token) == token \in {"maru", "sp"}

\* number of characters of a token
CharLen(token) ==
    CASE token \in {"nya", "yon"} -> 2
      [] token \in {"masked", "restored"} -> 4
      [] OTHER -> 1

RECURSIVE SumCharLen(_)
SumCharLen(tokens) ==
    IF tokens = <<>> THEN 0 ELSE CharLen(Head(tokens)) + SumCharLen(Tail(tokens))

\* len(text)
TextLength(text) == text.padding + SumCharLen(text.tokens)

\* the characters normalize works on: the padding is plain, one character stands
\* for it
Body(text) == IF text.padding > 0 THEN <<"w">> \o text.tokens ELSE text.tokens

RECURSIVE lstrip(_)
lstrip(tokens) ==
    IF tokens # <<>> /\ Head(tokens) = "sp" THEN lstrip(Tail(tokens)) ELSE tokens

RECURSIVE rstrip(_)
rstrip(tokens) ==
    IF tokens # <<>> /\ tokens[Len(tokens)] = "sp"
    THEN rstrip(SubSeq(tokens, 1, Len(tokens) - 1)) ELSE tokens

\* str.strip()
strip(tokens) == rstrip(lstrip(tokens))

\* re.sub(r'\s+', ' ', text)
RECURSIVE collapse_whitespace(_)
collapse_whitespace(tokens) ==
    IF Len(tokens) < 2 THEN tokens
    ELSE IF tokens[1] = "sp" /\ tokens[2] = "sp" THEN collapse_whitespace(Tail(tokens))
    ELSE <<tokens[1]>> \o collapse_whitespace(Tail(tokens))

\* utils.sanitize_text
sanitize_text(tokens) == collapse_whitespace(strip(tokens))

\* _resolve_masked_words: every masked word is replaced by the word behind it
_resolve_masked_words(tokens) ==
    [i \in 1..Len(tokens) |-> IF tokens[i] = "masked" THEN "restored" ELSE tokens[i]]

\* re.sub(ending + '([。！？\s]*$)', r'\1', text): the ending after which only
\* punctuation follows, up to the end of the text, is removed
RemoveAtEnd(tokens, ending) ==
    LET at == {i \in 1..Len(tokens) :
                  /\ tokens[i] = ending
                  /\ \A j \in (i + 1)..Len(tokens) : IsPunctuation(tokens[j])}
    IN  IF at = {} THEN tokens
        ELSE LET i == CHOOSE i \in at : TRUE
             IN  SubSeq(tokens, 1, i - 1) \o SubSeq(tokens, i + 1, Len(tokens))

\* re.sub(ending + '([。！？\s]+)', r'\1', text): every ending followed by
\* punctuation is removed
RECURSIVE RemoveBeforePunctuation(_, _)
RemoveBeforePunctuation(tokens, ending) ==
    IF tokens = <<>> THEN <<>>
    ELSE IF /\ tokens[1] = ending
            /\ Len(tokens) >= 2
            /\ IsPunctuation(tokens[2])
    THEN RemoveBeforePunctuation(Tail(tokens), ending)
    ELSE <<tokens[1]>> \o RemoveBeforePunctuation(Tail(tokens), ending)

\* the order of the two endings in CUTE_ENDINGS
CUTE_ENDINGS == <<"nya", "yon">>

\* _remove_cute_endings: one pass over CUTE_ENDINGS, in the order of the list
RECURSIVE RemoveEndingsFrom(_, _)
RemoveEndingsFrom(tokens, i) ==
    IF i > Len(CUTE_ENDINGS) THEN tokens
    ELSE RemoveEndingsFrom(
             RemoveBeforePunctuation(RemoveAtEnd(tokens, CUTE_ENDINGS[i]), CUTE_ENDINGS[i]),
             i + 1)

_remove_cute_endings(tokens) == strip(RemoveEndingsFrom(tokens, 1))

\* _final_purification
_final_purification(tokens) == strip(collapse_whitespace(tokens))

\* the normalized characters of a text (steps 2 to 6 of normalize)
NormalizedBody(tokens) ==
    _final_purification(_remove_cute_endings(_resolve_masked_words(sanitize_text(tokens))))

\* utils.generate_signature: the first 16 hex digits of SHA-256, taken to be
\* different for different texts
generate_signature(text) == text

NoText == [padding |-> 0, tokens |-> <<>>]

NoNormalization ==
    [original_text |-> NoText, normalized_text |-> NoText, calls |-> 0, cached |-> FALSE]

\* normalize without the cache: the empty result for a blank text, the normalized
\* characters otherwise
FreshNormalization(text) ==
    IF strip(Body(text)) = <<>>
    THEN [original_text |-> text, normalized_text |-> NoText]
    ELSE LET normalized == NormalizedBody(Body(text))
         IN  [original_text |-> text,
              normalized_text |->
                  [padding |-> text.padding,
                   tokens |-> IF text.padding > 0 THEN Tail(normalized) ELSE normalized]]

\* KotodamaNormalizer.normalize(text): the result and the cache after the call
normalize(cache, text) ==
    IF strip(Body(text)) = <<>>
    THEN [result |-> FreshNormalization(text), cache |-> cache, cached |-> FALSE]
    ELSE IF generate_signature(text) \in DOMAIN cache
    THEN [result |-> cache[generate_signature(text)], cache |-> cache, cached |-> TRUE]
    ELSE [result |-> FreshNormalization(text),
          cache |-> [k \in DOMAIN cache \cup {generate_signature(text)} |->
                        IF k = generate_signature(text) THEN FreshNormalization(text)
                        ELSE cache[k]],
          cached |-> FALSE]

\* a call of normalize on the pending text; the caller hands the normalized text
\* back as the next text
Normalize ==
    /\ normalization_result.calls < MaxNormalizations
    /\ LET out == normalize(purification_cache, pending_text)
       IN  /\ purification_cache' = out.cache
           /\ normalization_result' =
                  [original_text |-> out.result.original_text,
                   normalized_text |-> out.result.normalized_text,
                   calls |-> normalization_result.calls + 1,
                   cached |-> out.cached]
           /\ pending_text' = out.result.normalized_text
    /\ UNCHANGED <<request_vars, cache_vars, call_vars, pipeline_vars>>

-----------------------------------------------------------------------------
(* detector.py: the cache of detect_all_threats, and analyze_content with the *)
(* normalizer and the detector in front of the verdict                        *)

cache_ttl == 3600

MAX_TEXT_LENGTH == 10000

NotServed == [normalizer_hit |-> FALSE, detector_hit |-> FALSE, age |-> 0]

\* an entry that is served whatever its age
IsFresh_forever(timestamp, t) == timestamp <= t

\* an entry is served while time.time() - timestamp < self.cache_ttl
IsFresh(timestamp, t) == t - timestamp < cache_ttl

\* generate_signature(text + str(context)): the normalized text, with the patterns
\* it holds, and the conversation history
cache_key(normalized_text, content) ==
    [text |-> <<normalized_text, content.category, content.matches, content.tone,
                content.text>>,
     context |-> content.history]

\* KotodamaPoisonDetector.detect_all_threats(normalized_text, context): the results
\* and the cache after the call
detect_all_threats_cached(cache, t, normalized_text, content) ==
    LET key == cache_key(normalized_text, content)
    IN  IF key \in DOMAIN cache /\ IsFresh(cache[key].timestamp, t)
        THEN [results |-> cache[key].results, cache |-> cache,
              hit |-> TRUE, age |-> t - cache[key].timestamp]
        ELSE LET final_results == detect_all_threats(content)
             IN  [results |-> final_results,
                  cache |-> [k \in DOMAIN cache \cup {key} |->
                                IF k = key
                                THEN [results |-> final_results, timestamp |-> t]
                                ELSE cache[k]],
                  hit |-> FALSE, age |-> 0]

\* one call of analyze_content(user_id, text, conversation_history=history): a text
\* the dominance detector lets pass goes through the normalizer (step 2) and the
\* detector (step 3) with their caches
AnalyzeText(u, request) ==
    IF request.content.dominance /= "none" \/ u = UnhashableUserId
    THEN /\ AnalyzeSteps(u, request.content, NoResult)
         /\ UNCHANGED component_vars
    ELSE LET norm == normalize(purification_cache, request.text)
             detected == detect_all_threats_cached(detection_cache, clock,
                             norm.result.normalized_text, request.content)
         IN  /\ AnalyzeSteps(u, request.content,
                     FinalResultFor(u, request.content,
                                    get_user_security_context(user_profiles, u),
                                    detected.results))
             /\ purification_cache' = norm.cache
             /\ normalization_result' =
                    [original_text |-> norm.result.original_text,
                     normalized_text |-> norm.result.normalized_text,
                     calls |-> normalization_result.calls + 1,
                     cached |-> norm.cached]
             /\ pending_text' = request.text
             /\ detection_cache' = detected.cache
             /\ served' = [normalizer_hit |-> norm.cached, detector_hit |-> detected.hit,
                           age |-> detected.age]
             /\ UNCHANGED <<clock, call_vars, pipeline_vars>>

\* time passes
Elapse ==
    /\ clock + ClockStep <= MaxClock
    /\ clock' = clock + ClockStep
    /\ UNCHANGED <<request_vars, normalizer_vars, detection_cache, served, call_vars,
                   pipeline_vars>>

-----------------------------------------------------------------------------
(* detector.py: detect_all_threats over several rule categories, evaluated  *)
(* in a given order                                                          *)

\* four of the rule categories, in the order the source evaluates them
Catalog == <<"ai_competition", "payment_claim", "A2_leading_questions",
             "D1_ethical_relativism">>

\* ClaudeSpecificDetector.detect_ai_competition: 0.5 per matched pattern, reported
\* from 0.5 on, without a cap
detect_ai_competition(matches) ==
    IF 5 * matches >= 5
    THEN << [poison_type |-> "ai_competition", confidence |-> 5 * matches,
             severity |-> "MEDIUM"] >>
    ELSE <<>>

\* ClaudeSpecificDetector.detect_payment_claim: 0.4 per matched pattern, reported
\* from 0.4 on, capped at 1.0
detect_payment_claim(matches) ==
    IF 4 * matches >= 4
    THEN << [poison_type |-> "payment_claim", confidence |-> Min2(4 * matches, 10),
             severity |-> "HIGH"] >>
    ELSE <<>>

\* the result of one rule category for a text that matches `matches` of its patterns
CategoryResult(category, matches) ==
    CASE category = "ai_competition" -> detect_ai_competition(matches)
      [] category = "payment_claim" -> detect_payment_claim(matches)
      [] OTHER -> _check_pattern_category(matches, category, GroupOf(category))

\* _detect_claude_specific and _detect_syntax_poison: the results of the categories,
\* appended in the order of evaluation
RECURSIVE AllResults(_, _, _)
AllResults(order, matched, i) ==
    IF i > Len(order) THEN <<>>
    ELSE CategoryResult(order[i], matched[order[i]]) \o AllResults(order, matched, i + 1)

\* sorted(results, key=confidence, reverse=True): a stable sort, so results of equal
\* confidence keep their order
RECURSIVE SortedByConfidence(_)
SortedByConfidence(results) ==
    IF results = <<>> THEN <<>>
    ELSE LET rest == SortedByConfidence(Tail(results))
             first == Head(results)
             above == SelectSeq(rest, LAMBDA r : r.confidence > first.confidence)
             below == SelectSeq(rest, LAMBDA r : r.confidence <= first.confidence)
         IN  above \o <<first>> \o below

\* the results that remain when only the first result of each severity is kept
RECURSIVE _consolidate_results_by_severity(_)
_consolidate_results_by_severity(results) ==
    IF results = <<>> THEN <<>>
    ELSE LET sorted_results == SortedByConfidence(results)
             first == Head(sorted_results)
         IN  <<first>> \o _consolidate_results_by_severity(
                 SelectSeq(Tail(sorted_results), LAMBDA r : r.severity # first.severity))

\* _consolidate_results: sorted by confidence, the first result of each poison_type
\* kept
RECURSIVE _consolidate_results(_)
_consolidate_results(results) ==
    IF results = <<>> THEN <<>>
    ELSE LET sorted_results == SortedByConfidence(results)
             first == Head(sorted_results)
         IN  <<first>> \o _consolidate_results(
                 SelectSeq(Tail(sorted_results), LAMBDA r : r.poison_type # first.poison_type))

\* detect_all_threats for a text, with the categories evaluated in `order`
detect_all_threats_in_order(order, matched) ==
    _consolidate_results(AllResults(order, matched, 1))

\* one call of detect_all_threats
DetectAllThreats ==
    /\ invoked.function = "detect_all_threats"
    /\ ~returned.returned
    /\ returned' = [returned |-> TRUE,
                    value |-> detect_all_threats_in_order(invoked.order, invoked.matched)]
    /\ UNCHANGED <<request_vars, normalizer_vars, cache_vars, invoked, pipeline_vars>>

-----------------------------------------------------------------------------
(* payment_claim_blocker.py: the financial-responsibility integration, and   *)
(* defense_coordinator.py: the final action of the coordinator               *)

\* _calculate_liability_strength, in hundredths
_calculate_liability_strength(explicit_liability, financial_context, responsibility_level) ==
    LET responsibility_strength ==
            CASE responsibility_level = "FULL_LIABILITY" -> 100
              [] responsibility_level = "SHARED_LIABILITY" -> 70
              [] responsibility_level = "LIMITED_LIABILITY" -> 30
              [] responsibility_level = "NO_LIABILITY" -> 0
              [] responsibility_level = "UNDEFINED" -> 50
        financial_adjustment ==
            CASE financial_context = "ENTERPRISE_LICENSE" -> 20
              [] financial_context = "COMMERCIAL_API" -> 15
              [] financial_context = "PAID_SERVICE" -> 10
              [] financial_context = "FREE_SERVICE" -> 0
    IN  Min2(responsibility_strength + financial_adjustment
                + (IF explicit_liability THEN 30 ELSE 0), 100)

\* _calculate_pi_protocol_modifier, in thousandths
_calculate_pi_protocol_modifier(financial_context, responsibility_level, liability_strength) ==
    LET base_modifier == 1000 + liability_strength * 15
        adjusted ==
            IF financial_context = "ENTERPRISE_LICENSE"
            THEN IF responsibility_level = "FULL_LIABILITY" THEN base_modifier + 500
                 ELSE IF responsibility_level = "NO_LIABILITY" THEN base_modifier - 800
                 ELSE base_modifier
            ELSE IF /\ financial_context = "PAID_SERVICE"
                    /\ responsibility_level = "NO_LIABILITY"
                 THEN base_modifier - 600
            ELSE base_modifier
    IN  Max2(200, Min2(3000, adjusted))

\* _detect_a2_vulnerability and _calculate_a2_vulnerability_score (in tenths)
_detect_a2_vulnerability(text, financial_context, responsibility_level) ==
    [detected |-> /\ text.financial_pressure
                  /\ responsibility_level \in {"NO_LIABILITY", "LIMITED_LIABILITY"},
     vulnerability_score |->
        Min2((IF text.financial_pressure THEN 4 ELSE 0)
                + (IF text.liability_evasion THEN 3 ELSE 0)
                + (IF financial_context \in {"PAID_SERVICE", "ENTERPRISE_LICENSE"}
                   THEN 2 ELSE 0)
                + (IF responsibility_level = "NO_LIABILITY" THEN 3 ELSE 0), 10)]

\* _determine_enhanced_action; adjusted_threat_score in 1/100000
_determine_enhanced_action(adjusted_threat_score, a2_vulnerability) ==
    IF a2_vulnerability.detected
    THEN IF a2_vulnerability.vulnerability_score >= 8 THEN "BLOCK"
         ELSE IF a2_vulnerability.vulnerability_score >= 6 THEN "SHIELD"
         ELSE "RESTRICT"
    ELSE IF adjusted_threat_score >= 80000 THEN "BLOCK"
    ELSE IF adjusted_threat_score >= 60000 THEN "SHIELD"
    ELSE IF adjusted_threat_score >= 40000 THEN "RESTRICT"
    ELSE IF adjusted_threat_score >= 20000 THEN "MONITOR"
    ELSE "ALLOW"

\* integrate_financial_responsibility: original is the confidence (in hundredths)
\* and the action decided before; text tells which pattern families the text
\* matches and what the detected financial context is
integrate_financial_responsibility(original, text) ==
    LET liability_strength ==
            _calculate_liability_strength(text.explicit_liability, text.financial_context,
                                          text.responsibility_level)
        pi_protocol_modifier ==
            _calculate_pi_protocol_modifier(text.financial_context,
                                            text.responsibility_level, liability_strength)
        adjusted_threat_score == original.confidence * pi_protocol_modifier
        final_action ==
            _determine_enhanced_action(adjusted_threat_score,
                _detect_a2_vulnerability(text, text.financial_context,
                                         text.responsibility_level))
    IN  [financial_adjusted_confidence |-> adjusted_threat_score,
         action_level |-> IF ActionLevelValue(final_action)
                                > ActionLevelValue(original.action_level)
                          THEN final_action ELSE original.action_level]

\* step 6 of analyze_content with a system_context: the result of the integration
\* is adopted when it raises the confidence
FinancialStep(original, text) ==
    LET financial_result == integrate_financial_responsibility(original, text)
    IN  IF financial_result.financial_adjusted_confidence > original.confidence * 1000
        THEN [confidence |-> financial_result.financial_adjusted_confidence,
              action_level |-> financial_result.action_level]
        ELSE [confidence |-> original.confidence * 1000,
              action_level |-> original.action_level]

\* _determine_final_action: system_results holds, per executed system, the
\* action_level of its result, or "none" where the result carries none
RECURSIVE _determine_final_action_from(_, _)
_determine_final_action_from(max_action, system_results) ==
    IF system_results = <<>> THEN max_action
    ELSE LET action == Head(system_results)
         IN  _determine_final_action_from(
                 IF /\ action # "none"
                    /\ ActionLevelValue(action) > ActionLevelValue(max_action)
                 THEN action ELSE max_action,
                 Tail(system_results))

_determine_final_action(system_results) ==
    _determine_final_action_from("ALLOW", system_results)

\* one call of make_final_judgment
MakeFinalJudgment ==
    /\ invoked.function = "make_final_judgment"
    /\ ~returned.returned
    /\ returned' = [returned |-> TRUE,
                    value |-> make_final_judgment(invoked.ethics_level,
                                                  invoked.recommended_action)]
    /\ UNCHANGED <<request_vars, normalizer_vars, cache_vars, invoked, pipeline_vars>>

\* one pass through step 6 of analyze_content
IntegrateFinancialResponsibility ==
    /\ invoked.function = "integrate_financial_responsibility"
    /\ ~returned.returned
    /\ returned' = [returned |-> TRUE,
                    value |-> FinancialStep(invoked.original, invoked.text)]
    /\ UNCHANGED <<request_vars, normalizer_vars, cache_vars, invoked, pipeline_vars>>

\* one call of _determine_final_action
DetermineFinalAction ==
    /\ invoked.function = "_determine_final_action"
    /\ ~returned.returned
    /\ returned' = [returned |-> TRUE,
                    value |-> _determine_final_action(invoked.system_results)]
    /\ UNCHANGED <<request_vars, normalizer_vars, cache_vars, invoked, pipeline_vars>>

-----------------------------------------------------------------------------
(* pipeline.py: ViorazuPipelineEngine                                        *)

TaskIds == 1..MaxTasks

\* a request that has not been made.  response is what process_request gave its
\* caller; executions and completions count the runs of _execute_defense_analysis
\* for the task and the calls of set_result that succeeded on its future.
NoTask ==
    [state |-> "new", future_result |-> "none", priority |-> 0, metadata |-> "none",
     response |-> "none", executions |-> 0, completions |-> 0]

InitPipeline ==
    /\ tasks = [i \in TaskIds |-> NoTask]
    /\ priority_queue = {}
    /\ active_tasks = 0
    /\ ready_workers = 0

\* PriorityQueue.get_nowait: a task of the least priority value
NextTasks(queue) ==
    {t \in queue : \A other \in queue : tasks[t].priority <= tasks[other].priority}

\* the tasks handed to the executor and running on one of its max_workers threads
Executing == {t \in TaskIds : tasks[t].state = "executing"}

\* process_request when the load controller lets the request through: the task is
\* created and enqueued (_enqueue_task starts a worker while active_tasks is below
\* max_workers), and the caller waits for the future
process_request(i, priority, metadata) ==
    /\ tasks[i].state = "new"
    /\ \A j \in 1..(i - 1) : tasks[j].state # "new"
    /\ tasks' = [tasks EXCEPT ![i] = [@ EXCEPT !.state = "queued",
                                                !.future_result = "pending",
                                                !.priority = priority,
                                                !.metadata = metadata,
                                                !.response = "waiting"]]
    /\ priority_queue' = priority_queue \cup {i}
    /\ ready_workers' = IF active_tasks < max_workers THEN ready_workers + 1
                        ELSE ready_workers
    /\ UNCHANGED <<active_tasks, request_vars, normalizer_vars, cache_vars, call_vars>>

\* process_request when can_process refuses: _create_throttled_response is not
\* defined, so the call raises AttributeError; nothing is enqueued
process_request_throttled(i) ==
    /\ tasks[i].state = "new"
    /\ \A j \in 1..(i - 1) : tasks[j].state # "new"
    /\ tasks' = [tasks EXCEPT ![i] = [@ EXCEPT !.state = "throttled",
                                                !.response = "AttributeError"]]
    /\ UNCHANGED <<priority_queue, active_tasks, ready_workers, request_vars,
                   normalizer_vars, cache_vars, call_vars>>

\* _worker, from its start to its first await: with the queue empty it ends; else it
\* takes a task, counts it in active_tasks and hands it to the executor
WorkerStart ==
    /\ ready_workers > 0
    /\ ready_workers' = ready_workers - 1
    /\ IF priority_queue = {}
       THEN UNCHANGED <<tasks, priority_queue, active_tasks>>
       ELSE \E t \in NextTasks(priority_queue) :
               /\ tasks' = [tasks EXCEPT ![t].state = "submitted"]
               /\ priority_queue' = priority_queue \ {t}
               /\ active_tasks' = active_tasks + 1
    /\ UNCHANGED <<request_vars, normalizer_vars, cache_vars, call_vars>>

\* a thread of the executor starts _execute_defense_analysis for a submitted task
StartExecution(t) ==
    /\ tasks[t].state = "submitted"
    /\ Cardinality(Executing) < max_workers
    /\ tasks' = [tasks EXCEPT ![t] = [@ EXCEPT !.state = "executing",
                                                !.executions = @ + 1]]
    /\ UNCHANGED <<priority_queue, active_tasks, ready_workers, request_vars,
                   normalizer_vars, cache_vars, call_vars>>

\* analyze_content(user_id, text, **metadata) raises TypeError for a keyword it
\* does not know
AnalysisRaises(task) == task.metadata = "unexpected_keyword"

\* the except branch of _worker calls _create_error_response, which is not defined,
\* when the future is not done: AttributeError leaves the loop and ends the worker
WorkerDies(task) == AnalysisRaises(task) /\ task.future_result = "pending"

\* the task after the executor returned: set_result on a pending future; on a
\* cancelled one set_result raises InvalidStateError, which the except branch
\* swallows because the future is done
Finished(task) ==
    IF ~AnalysisRaises(task) /\ task.future_result = "pending"
    THEN [task EXCEPT !.state = "processed", !.future_result = "result",
                      !.response = "result", !.completions = @ + 1]
    ELSE [task EXCEPT !.state = "processed"]

\* _worker, from the return of run_in_executor to its next await or its end:
\* set_result, the finally block, and the next turn of the loop
FinishExecution(t) ==
    /\ tasks[t].state = "executing"
    /\ LET finished == [tasks EXCEPT ![t] = Finished(tasks[t])]
       IN  IF WorkerDies(tasks[t]) \/ priority_queue = {}
           THEN /\ tasks' = finished
                /\ active_tasks' = active_tasks - 1
                /\ UNCHANGED priority_queue
           ELSE \E next \in NextTasks(priority_queue) :
                   /\ tasks' = [finished EXCEPT ![next].state = "submitted"]
                   /\ priority_queue' = priority_queue \ {next}
                   /\ UNCHANGED active_tasks
    /\ UNCHANGED <<ready_workers, request_vars, normalizer_vars, cache_vars, call_vars>>

\* asyncio.wait_for(future_result, timeout=10.0) runs out: the future is cancelled
\* and process_request calls _create_timeout_response, which is not defined
Timeout(t) ==
    /\ tasks[t].future_result = "pending"
    /\ tasks' = [tasks EXCEPT ![t] = [@ EXCEPT !.future_result = "cancelled",
                                                !.response = "AttributeError"]]
    /\ UNCHANGED <<priority_queue, active_tasks, ready_workers, request_vars,
                   normalizer_vars, cache_vars, call_vars>>

-----------------------------------------------------------------------------
(* Initial state *)

NoBurst == [sev |-> "none", ty |-> "none"]

InitLedger ==
    /\ user_trusts = <<>>
    /\ global_violations = 0
    /\ now = 0
    /\ ret = NoRet

InitThreads == threads = [t \in Threads |-> NoThread]

InitCore ==
    /\ user_profiles = <<>>
    /\ system_stats = [total_analyses |-> 0, threats_detected |-> 0,
                       dominance_syntax_blocked |-> 0, threats_resolved |-> 0,
                       users_guided |-> 0]
    /\ last_result = NoResult
    /\ verdicts = [u \in Users |-> NoResult]
    /\ triggered = [u \in Users |-> [count |-> 0, score_after_first |-> 0]]

InitNormalizer ==
    /\ purification_cache = <<>>
    /\ normalization_result = NoNormalization
    /\ pending_text = NoText

InitCaches ==
    /\ detection_cache = <<>>
    /\ clock = 0
    /\ served = NotServed

NoCall == [function |-> "none"]

NotReturned == [returned |-> FALSE]

InitCalls ==
    /\ invoked = NoCall
    /\ returned = NotReturned

InitComponents == InitNormalizer /\ InitCaches /\ InitCalls /\ InitPipeline

Init ==
    /\ InitLedger
    /\ burst = NoBurst
    /\ InitThreads
    /\ InitCore
    /\ InitComponents

-----------------------------------------------------------------------------
(* The ledger driven by arbitrary callers *)

Tick ==
    /\ now + TickDays <= MaxNow
    /\ now' = now + TickDays
    /\ UNCHANGED <<user_trusts, global_violations, ret, burst, component_vars, thread_vars, core_vars>>

RecordViolation ==
    /\ global_violations < MaxViolations
    /\ \E u \in Users, sev \in SpecSeverities, ty \in SpecTypes, text \in SpecTexts :
           ReduceTrust(u, sev, ty, text)

CheckRecovery == \E u \in Users : ApplyNaturalRecovery(u)

NormalDialogue == \E u \in Users : ResetConsecutiveAttacks(u)

ReadSensitivity == \E u \in Users : GetDetectionSensitivity(u)

Next ==
    \/ RecordViolation
    \/ CheckRecovery
    \/ NormalDialogue
    \/ ReadSensitivity
    \/ Tick

Spec == Init /\ [][Next]_vars

-----------------------------------------------------------------------------
(* A burst of violations of one severity and one category *)

InitBurst ==
    /\ InitLedger
    /\ burst \in [sev : AttackSeverity, ty : AttackTypes]
    /\ InitThreads
    /\ InitCore
    /\ InitComponents

BurstViolation ==
    /\ global_violations < MaxBurst
    /\ \E u \in Users, text \in SpecTexts : ReduceTrust(u, burst.sev, burst.ty, text)

NextBurst == BurstViolation

SpecBurst == InitBurst /\ [][NextBurst]_vars

-----------------------------------------------------------------------------
(* Violations recorded from two threads *)

ThreadSeverities == {"MINIMAL"}

NextThreads ==
    \/ \E t \in Threads, u \in Users, sev \in ThreadSeverities,
          ty \in SpecTypes, text \in SpecTexts : BeginReduceTrust(t, u, sev, ty, text)
    \/ \E t \in Threads : GetUserTrustCheck(t)
    \/ \E t \in Threads : GetUserTrustCreate(t)
    \/ \E t \in Threads : GetUserTrustReturn(t)
    \/ \E t \in Threads : ReadConsecutive(t)
    \/ \E t \in Threads : ReadResponsibility(t)
    \/ \E t \in Threads : ReadScore(t)
    \/ \E t \in Threads : WriteUserTrust(t)
    \/ \E t \in Threads : WriteLevels(t)
    \/ \E t \in Threads : AppendHistory(t)

SpecThreads == Init /\ [][NextThreads]_vars

-----------------------------------------------------------------------------
(* Requests analysed by the defense core *)

\* the request texts of this scenario: neutral in tone, without a history, matching
\* patterns of one category or caught by the dominance detector
CoreContents ==
    {c \in Contents :
        /\ c.tone = 0 /\ c.history = NoHistory /\ c.category = "D1_ethical_relativism"
        /\ (c.dominance # "none" => c.matches = 0 /\ c.text = EmptyText)}

NextCore ==
    /\ system_stats.total_analyses < MaxRequests
    /\ \E u \in UserIds, content \in CoreContents : AnalyzeContent(u, content)

SpecCore == Init /\ [][NextCore]_vars

-----------------------------------------------------------------------------
(* One request of each user, over the request texts and histories *)

\* the request texts of this scenario: any category, match count, tone and history,
\* none caught by the dominance detector (a text without matches has no category
\* to tell apart)
VerdictContents ==
    {c \in Contents :
        /\ c.dominance = "none" /\ c.text = EmptyText
        /\ (c.matches = 0 => c.category = "D1_ethical_relativism")}

FirstRequest ==
    \E u \in Users :
        /\ verdicts[u].user = "none"
        /\ \E content \in VerdictContents : AnalyzeContent(u, content)

NextVerdict == FirstRequest

SpecVerdict == Init /\ [][NextVerdict]_vars

-----------------------------------------------------------------------------
(* Requests of users whose ledger score has been lowered *)

\* the request texts of this scenario: one category, neutral in tone, with and
\* without a conversation history that shows an escalation
TrustContents ==
    {c \in Contents :
        /\ c.dominance = "none" /\ c.text = EmptyText /\ c.tone = 0
        /\ c.category = "D1_ethical_relativism"
        /\ c.history \in {NoHistory, History(10, 20, 20, 10, 10)}}

RequestWithTrust ==
    \E u \in Users :
        /\ verdicts[u].user = "none"
        /\ \E content \in TrustContents : AnalyzeContent(u, content)

\* a violation recorded in the ledger before the request is analysed
PriorViolation ==
    /\ global_violations < MaxViolations
    /\ \E u \in Users, sev \in SpecSeverities : ReduceTrust(u, sev, "payment_claim", EmptyText)

NextTrust ==
    \/ PriorViolation
    \/ RequestWithTrust

SpecTrust == Init /\ [][NextTrust]_vars

-----------------------------------------------------------------------------
(* A text normalized, and its normalized text normalized again *)

RECURSIVE SeqsUpTo(_, _)
SeqsUpTo(S, n) ==
    IF n = 0 THEN {<<>>}
    ELSE LET shorter == SeqsUpTo(S, n - 1)
         IN  shorter \cup {Append(s, x) : s \in shorter, x \in S}

NormTexts == {[padding |-> 0, tokens |-> tokens] : tokens \in SeqsUpTo(Tokens, MaxTextLen)}

InitTexts ==
    /\ InitLedger
    /\ burst = NoBurst
    /\ InitThreads
    /\ InitCore
    /\ purification_cache = <<>>
    /\ normalization_result = NoNormalization
    /\ pending_text \in NormTexts
    /\ InitCaches
    /\ InitCalls
    /\ InitPipeline

NextNormalizer == Normalize

SpecNormalizer == InitTexts /\ [][NextNormalizer]_vars

-----------------------------------------------------------------------------
(* One request of each user, with the texts going through the normalizer and *)
(* the detector while time passes                                             *)

\* the texts of this scenario: a plain character, a plain character with a cute
\* ending, and a text of MAX_TEXT_LENGTH + 1 plain characters
RequestTexts ==
    {[padding |-> 0, tokens |-> <<"w">>],
     [padding |-> 0, tokens |-> <<"w", "nya">>],
     [padding |-> MAX_TEXT_LENGTH, tokens |-> <<"w">>]}

\* the patterns the plain characters of a text hold, with and without an escalating
\* conversation history
RequestContents ==
    {c \in Contents :
        /\ c.dominance = "none" /\ c.text = EmptyText /\ c.tone = 0
        /\ c.category = "D1_ethical_relativism"
        /\ c.matches \in {0, MaxMatches}
        /\ c.history \in {NoHistory, History(10, 20, 20, 10, 10)}}

TextRequest ==
    \E u \in Users :
        /\ verdicts[u].user = "none"
        /\ \E text \in RequestTexts, content \in RequestContents :
               AnalyzeText(u, [text |-> text, content |-> content])

NextText ==
    \/ TextRequest
    \/ Elapse

SpecText == Init /\ [][NextText]_vars

-----------------------------------------------------------------------------
(* detect_all_threats applied to a text, the rule categories in any order *)

\* the orders in which the categories of the catalog can be evaluated
CatalogOrders ==
    {order \in [1..Len(Catalog) -> {Catalog[i] : i \in 1..Len(Catalog)}] :
        \A i, j \in 1..Len(Catalog) : i # j => order[i] # order[j]}

\* the texts: the number of patterns of each category a text matches
MatchedPatterns == [{Catalog[i] : i \in 1..Len(Catalog)} -> 0..MaxMatches]

InitWith(calls) ==
    /\ InitLedger
    /\ burst = NoBurst
    /\ InitThreads
    /\ InitCore
    /\ InitNormalizer
    /\ InitCaches
    /\ invoked \in calls
    /\ returned = NotReturned
    /\ InitPipeline

InitDetect ==
    InitWith([function : {"detect_all_threats"}, order : CatalogOrders,
              matched : MatchedPatterns])

NextDetect == DetectAllThreats

SpecDetect == InitDetect /\ [][NextDetect]_vars

-----------------------------------------------------------------------------
(* The decisions about the action level: the ethics judge, the               *)
(* financial-responsibility integration and the defense coordinator          *)

ActionLevels == {"ALLOW", "MONITOR", "RESTRICT", "SHIELD", "BLOCK", "TERMINATE"}

EthicsLevels ==
    {"VIRTUOUS", "CONSTRUCTIVE", "NEUTRAL", "CONCERNING", "HARMFUL", "DESTRUCTIVE"}

JudgmentCalls ==
    [function : {"make_final_judgment"}, ethics_level : EthicsLevels,
     recommended_action : ActionLevels]

\* confidence scores of an integrated result, in hundredths
ConfidenceScores == {0, 21, 28, 42, 56, 70}

\* what the financial detector finds in a text and its context.  A text with a
\* financial-pressure pattern is not in a free-service context, and a text with a
\* liability-evasion pattern has a responsibility level.
FinancialTexts ==
    {text \in [financial_pressure : BOOLEAN, liability_evasion : BOOLEAN,
               explicit_liability : BOOLEAN,
               financial_context : {"PAID_SERVICE", "ENTERPRISE_LICENSE",
                                    "COMMERCIAL_API", "FREE_SERVICE"},
               responsibility_level : {"FULL_LIABILITY", "SHARED_LIABILITY",
                                       "LIMITED_LIABILITY", "NO_LIABILITY",
                                       "UNDEFINED"}] :
        /\ text.financial_pressure => text.financial_context # "FREE_SERVICE"
        /\ text.liability_evasion => text.responsibility_level # "UNDEFINED"}

FinancialCalls ==
    [function : {"integrate_financial_responsibility"},
     original : [confidence : ConfidenceScores, action_level : ActionLevels],
     text : FinancialTexts]

\* the results of up to MaxSystems executed systems
SystemResults ==
    UNION {[1..n -> ActionLevels \cup {"none"}] : n \in 0..MaxSystems}

CoordinatorCalls ==
    [function : {"_determine_final_action"}, system_results : SystemResults]

InitActions == InitWith(JudgmentCalls \cup FinancialCalls \cup CoordinatorCalls)

NextActions ==
    \/ MakeFinalJudgment
    \/ IntegrateFinancialResponsibility
    \/ DetermineFinalAction

SpecActions == InitActions /\ [][NextActions]_vars

-----------------------------------------------------------------------------
(* The pipeline engine: requests enqueued, workers and executor threads      *)

Priorities == {1, 5}

Metadata == {"valid", "unexpected_keyword"}

InitEngine == InitWith({NoCall})

NextPipeline ==
    \/ \E i \in TaskIds, priority \in Priorities, metadata \in Metadata :
          process_request(i, priority, metadata)
    \/ \E i \in TaskIds : process_request_throttled(i)
    \/ WorkerStart
    \/ \E t \in TaskIds : StartExecution(t)
    \/ \E t \in TaskIds : FinishExecution(t)
    \/ \E t \in TaskIds : Timeout(t)

SpecPipeline == InitEngine /\ [][NextPipeline]_vars

\* the event loop runs every worker that can run, the executor every task it was
\* handed, and the timer of wait_for fires while the future is pending
SpecPipelineFair ==
    /\ SpecPipeline
    /\ WF_vars(WorkerStart)
    /\ \A t \in TaskIds : /\ WF_vars(StartExecution(t))
                          /\ WF_vars(FinishExecution(t))
                          /\ WF_vars(Timeout(t))

-----------------------------------------------------------------------------
(* Properties *)

Known == DOMAIN user_trusts

\* the score a user has before a step (a user not yet seen has the initial score)
ScoreBefore(u) == IF u \in Known THEN user_trusts[u].current_score ELSE InitialScore

\* whole days between a timestamp and the day d
DaysSince(ts, d) == d - ts.t

C2_TrustAsymmetry ==
    \A u \in Known :
        user_trusts[u].total_violations >= 1 => user_trusts[u].current_score < InitialScore

\* a recovery check made a full cooldown after the user's last violation
C2_Witness ==
    \E u \in Known :
        /\ user_trusts[u].total_violations >= 1
        /\ ret.op = "apply_natural_recovery_v91" /\ ret.user = u
        /\ DaysSince(user_trusts[u].last_violation, ret.at) >= cooldown_days

\* the UserTrust of a new user after the calls of threads a and b, one after the other
SerialReduceTrust(a, b) ==
    reduce_trust_v91(
        reduce_trust_v91(NewUserTrust, threads[a].sev, threads[a].ty, threads[a].text,
                         get_current_timestamp(now)),
        threads[b].sev, threads[b].ty, threads[b].text, get_current_timestamp(now))

\* C3: when two threads have each recorded a violation of the same, new user, the
\* record in the ledger counts both (total and consecutive violations, history) and
\* its score is the one some serial order of the two calls gives.
C3_NoLostUpdate ==
    \A u \in Users :
        ( /\ \A t \in Threads : threads[t].pc = "done" /\ threads[t].user = u
          /\ global_violations = Cardinality(Threads) )
        => ( /\ u \in Known
             /\ user_trusts[u].total_violations = Cardinality(Threads)
             /\ user_trusts[u].consecutive_attacks = Cardinality(Threads)
             /\ Len(user_trusts[u].trust_history) = Cardinality(Threads)
             /\ \E a, b \in Threads :
                    /\ a # b
                    /\ user_trusts[u].current_score = SerialReduceTrust(a, b).current_score )

\* C4: a recovery check made when days_since_last_violation >= cooldown_days and
\* score < recovery cap leaves the user with a higher score, at most the cap.
C4_RecoveryRaisesScore ==
    \A u \in Known :
        ( /\ ret.op = "apply_natural_recovery_v91" /\ ret.user = u
          /\ user_trusts[u].last_violation # NoTimestamp
          /\ DaysSince(user_trusts[u].last_violation, ret.at) >= cooldown_days
          /\ ret.old_score < max_recovery_score )
        => ( /\ ret.outcome = "recovery_applied"
             /\ ret.new_score > ret.old_score
             /\ ret.new_score <= max_recovery_score
             /\ user_trusts[u].current_score = ret.new_score )

\* the reset window of consecutive attacks: one hour (manager.py)
ResetWindowHours == 1
HoursPerDay == 24

\* C5: a recorded violation sets consecutive_attacks to one more than before, or to 1
\* when the gap since the user's last violation exceeds the reset window.
C5_ConsecutiveCountResets ==
    [][\A u \in Known :
          ( /\ global_violations' = global_violations + 1
            /\ ret'.op = "reduce_trust_v91" /\ ret'.user = u )
          => user_trusts'[u].consecutive_attacks =
               ( IF /\ user_trusts[u].last_violation # NoTimestamp
                    /\ DaysSince(user_trusts[u].last_violation, now) * HoursPerDay
                          > ResetWindowHours
                 THEN 0
                 ELSE user_trusts[u].consecutive_attacks ) + 1]_vars

\* C6: once five requests of a user within the hour have been handed to the
\* attacker manager as violations, the manager counts five consecutive attacks for
\* the user and holds a trust score strictly below the one it held after the first.
C6_FiveViolationsWithinAnHour ==
    \A u \in Users :
        triggered[u].count = 5
        => ( /\ get_user_security_context(user_profiles, u).consecutive_attacks = 5
             /\ get_user_security_context(user_profiles, u).trust_score
                   < triggered[u].score_after_first )

\* the score a user had before the i-th record of the history h
ScoreBeforeRecord(h, i) == IF i = 1 THEN InitialScore ELSE h[i - 1].new_score

\* the structure responsibility score a user had before the i-th record of h, in
\* thousandths: every earlier text with an A-2 vulnerability above 0.5 took 0.3 times
\* that vulnerability from it
RECURSIVE ResponsibilityBeforeRecord(_, _)
ResponsibilityBeforeRecord(h, i) ==
    IF i = 1 THEN 1000
    ELSE LET before == ResponsibilityBeforeRecord(h, i - 1)
             a2 == h[i - 1].a2_vulnerability_score
         IN  IF a2 > 50 THEN Max2(0, before - 3 * a2) ELSE before

\* C7 as stated: in a burst of one severity and one category the i-th violation costs
\* every user the same (the penalty depends on severity, category and consecutive
\* count only), and each new score is max(0, score - penalty).
C7_PenaltyFromSeverityCategoryBonus ==
    \A u, v \in Known :
        \A i \in 1..Min2(Len(user_trusts[u].trust_history), Len(user_trusts[v].trust_history)) :
            /\ user_trusts[u].trust_history[i].score_change
                  = user_trusts[v].trust_history[i].score_change
            /\ user_trusts[u].trust_history[i].new_score
                  = Max2(0, ScoreBeforeRecord(user_trusts[u].trust_history, i)
                              + user_trusts[u].trust_history[i].score_change)

\* C7 amended: the i-th violation of a burst changes the score by
\* int(base_penalty * multiplier + int(-30 * a2) + min(-3 * (i - 1), -20)
\*     + int(-15 * (1 - structure responsibility))), where a2 is the A-2 vulnerability
\* of the text and i - 1 the consecutive attacks before; the new score is
\* max(0, score + change).
C7_PenaltyIsAdditive ==
    \A u \in Known :
        \A i \in 1..Len(user_trusts[u].trust_history) :
            LET h == user_trusts[u].trust_history
            IN  /\ h[i].score_change =
                     TruncDiv(penalty_config(burst.sev) * claude_attack_multipliers(burst.ty)
                                + 10 * ( TruncDiv(h[i].a2_vulnerability_score * (-30), 100)
                                         + Min2((-3) * (i - 1), -20)
                                         + TruncDiv((1000 - ResponsibilityBeforeRecord(h, i))
                                                      * (-15), 1000) ),
                              10)
                /\ h[i].new_score = Max2(0, ScoreBeforeRecord(h, i) + h[i].score_change)

\* a user's third violation in a burst, after a text that lowered the structure
\* responsibility score, with the score still above 0
C7_Witness ==
    \E u \in Known :
        /\ Len(user_trusts[u].trust_history) >= 3
        /\ ResponsibilityBeforeRecord(user_trusts[u].trust_history, 3) < 1000
        /\ user_trusts[u].trust_history[3].new_score > 0
        /\ user_trusts[u].trust_history[3].score_change
              # user_trusts[u].trust_history[1].score_change

C9_SensitivityDependsOnScoreOnly ==
    \A u, v \in Known :
        user_trusts[u].current_score = user_trusts[v].current_score
        => get_detection_sensitivity_v91(user_trusts[u])
             = get_detection_sensitivity_v91(user_trusts[v])

\* C9 amended: two records with the same trust level, A-2 vulnerability score,
\* financial pressure count and structure responsibility score have the same
\* sensitivity multiplier, whatever the rest of their violation history.
C9_SensitivityDependsOnFourFields ==
    \A u, v \in Known :
        ( /\ user_trusts[u].trust_level = user_trusts[v].trust_level
          /\ user_trusts[u].a2_vulnerability_score = user_trusts[v].a2_vulnerability_score
          /\ user_trusts[u].financial_pressure_count = user_trusts[v].financial_pressure_count
          /\ user_trusts[u].structure_responsibility_score
               = user_trusts[v].structure_responsibility_score )
        => get_detection_sensitivity_v91(user_trusts[u])
             = get_detection_sensitivity_v91(user_trusts[v])

\* two violated users agree on the four fields, differ in their consecutive attacks,
\* and the sensitivity of one of them has just been read
C9_Witness ==
    \E u, v \in Known :
        /\ u # v
        /\ user_trusts[u].total_violations >= 1 /\ user_trusts[v].total_violations >= 1
        /\ user_trusts[u].trust_level = user_trusts[v].trust_level
        /\ user_trusts[u].a2_vulnerability_score = user_trusts[v].a2_vulnerability_score
        /\ user_trusts[u].financial_pressure_count = user_trusts[v].financial_pressure_count
        /\ user_trusts[u].structure_responsibility_score
              = user_trusts[v].structure_responsibility_score
        /\ user_trusts[u].consecutive_attacks # user_trusts[v].consecutive_attacks
        /\ ret.op = "get_detection_sensitivity_v91" /\ ret.user = u
        /\ ret.value = get_detection_sensitivity_v91(user_trusts[u])


\* the requests of u handed to the attacker manager before the last request
TriggeredBefore(u) ==
    triggered[u].count
      - (IF last_result.user = u /\ last_result.handler # "none" THEN 1 ELSE 0)

\* C10: a request of a user that follows a violation of that user starts with a
\* sensitivity multiplier that the violation changed (1.0 is the multiplier of a
\* user without violations).
C10_NextRequestSeesViolation ==
    \A u \in Users :
        ( /\ last_result.user = u
          /\ last_result.sensitivity_at_start > 0
          /\ TriggeredBefore(u) > 0 )
        => last_result.sensitivity_at_start # 1000

\* the history the ledger holds for a user (none before the record is created)
HistoryOf(uts, u) == IF u \in DOMAIN uts THEN uts[u].trust_history ELSE <<>>

\* C11: every recorded violation and every recovery check appends exactly one record
\* to the history of its user, and no step removes or changes a record that any
\* history already holds.
C11_EveryCallAppendsOneRecord ==
    [][\A u \in Users :
          LET before == HistoryOf(user_trusts, u)
              after == HistoryOf(user_trusts', u)
          IN  /\ Len(after) >= Len(before)
              /\ SubSeq(after, 1, Len(before)) = before
              /\ ( /\ ret' # ret
                   /\ ret'.user = u
                   /\ ret'.op \in {"reduce_trust_v91", "apply_natural_recovery_v91"} )
                 => Len(after) = Len(before) + 1]_vars

\* C12: in every reachable state every user's trust score, and every score a history
\* record reports, lies between 0 and the initial 100.
C12_ScoreInRange ==
    \A u \in Known :
        /\ user_trusts[u].current_score \in 0..InitialScore
        /\ \A i \in 1..Len(user_trusts[u].trust_history) :
               user_trusts[u].trust_history[i].new_score \in 0..InitialScore

\* a violation whose penalty exceeded the score it met has just been floored at 0
C12_Witness ==
    \E u \in Known :
        /\ ret.op = "reduce_trust_v91" /\ ret.user = u
        /\ ret.old_score > 0
        /\ ret.old_score + ret.value < 0
        /\ user_trusts[u].current_score = 0

\* the rank of an action in the order ALLOW < MONITOR < RESTRICT < SHIELD < BLOCK <
\* TERMINATE
StrictnessRank(action) ==
    CASE action = "ALLOW" -> 0
      [] action = "MONITOR" -> 1
      [] action = "RESTRICT" -> 2
      [] action = "SHIELD" -> 3
      [] action = "BLOCK" -> 4
      [] action = "TERMINATE" -> 5

\* the users whose request has been answered with a verdict
Answered == {u \in Users : verdicts[u].user # "none"}

\* C13: two verdicts with the same threat level carry the same action, and of two
\* verdicts the one with the higher threat level carries an action at least as
\* strict in the order ALLOW < MONITOR < RESTRICT < SHIELD < BLOCK < TERMINATE.
C13_ActionFollowsThreatLevel ==
    \A u, v \in Answered :
        /\ verdicts[u].threat_level = verdicts[v].threat_level
             => verdicts[u].action_level = verdicts[v].action_level
        /\ ThreatLevelValue(verdicts[u].threat_level) > ThreatLevelValue(verdicts[v].threat_level)
             => StrictnessRank(verdicts[u].action_level)
                   >= StrictnessRank(verdicts[v].action_level)

\* the threshold of the SUSPICIOUS trust level: a score below it has a level below
\* SUSPICIOUS
SuspiciousCutoff == 55

\* C14: of two users answered for the same request text and history, the one whose
\* ledger score was lower when the request arrived gets a threat level and an action
\* that are not lower than the other's.
C14_LowerTrustNeverMoreLenient ==
    \A u, v \in Answered :
        ( /\ verdicts[u].content = verdicts[v].content
          /\ verdicts[u].score_at_start < verdicts[v].score_at_start )
        => /\ ThreatLevelValue(verdicts[u].threat_level)
                 >= ThreatLevelValue(verdicts[v].threat_level)
           /\ StrictnessRank(verdicts[u].action_level)
                 >= StrictnessRank(verdicts[v].action_level)

\* a user whose score has fallen below the SUSPICIOUS threshold and a user at 100
\* have both been answered for the same text with pattern matches
C14_Witness ==
    \E u, v \in Answered :
        /\ verdicts[u].content = verdicts[v].content
        /\ verdicts[u].content.matches > 0
        /\ verdicts[u].threat_detected
        /\ verdicts[u].score_at_start < SuspiciousCutoff
        /\ verdicts[v].score_at_start = InitialScore

\* C15: of two users answered for the same request text and history, one with a
\* ledger score below the SUSPICIOUS threshold and one with the initial score of 100,
\* the first gets a threat level exactly one level above the second's and an action
\* at least one level stricter.
C15_LowTrustEscalatesOneLevel ==
    \A u, v \in Answered :
        ( /\ verdicts[u].content = verdicts[v].content
          /\ verdicts[u].score_at_start < SuspiciousCutoff
          /\ verdicts[v].score_at_start = InitialScore )
        => /\ ThreatLevelValue(verdicts[u].threat_level)
                 = ThreatLevelValue(verdicts[v].threat_level) + 1
           /\ StrictnessRank(verdicts[u].action_level)
                 >= StrictnessRank(verdicts[v].action_level) + 1

\* C16: a verdict for a request text in which no pattern matched has threat level
\* SAFE and action ALLOW.
C16_NoMatchesSafeAllow ==
    \A u \in Answered :
        Len(verdicts[u].detections) = 0
        => /\ verdicts[u].threat_level = "SAFE"
           /\ verdicts[u].action_level = "ALLOW"

\* C17: of two verdicts for the same request text, one with a conversation history
\* in which an escalation pattern was detected and one without a history, the first
\* has a threat level exactly one level above the second's.
C17_EscalationRaisesOneLevel ==
    \A u, v \in Answered :
        ( /\ verdicts[u].content.category = verdicts[v].content.category
          /\ verdicts[u].content.matches = verdicts[v].content.matches
          /\ verdicts[u].content.tone = verdicts[v].content.tone
          /\ verdicts[u].escalation_detected
          /\ verdicts[v].content.history = NoHistory )
        => ThreatLevelValue(verdicts[u].threat_level)
              = ThreatLevelValue(verdicts[v].threat_level) + 1

\* the confidence of the dominant (first) match of a verdict, in tenths
DominantConfidence(result) == result.detections[1].confidence

\* the verdicts with a pattern match whose threat level was not raised by an
\* escalation of the conversation
MatchedWithoutEscalation ==
    {u \in Answered : Len(verdicts[u].detections) > 0 /\ ~verdicts[u].escalation_detected}

\* C18: among verdicts not raised by an escalation, the same confidence of the
\* dominant match gives the same threat level and a higher confidence never gives a
\* lower threat level.
C18_ConfidenceBreakpointsMonotonic ==
    \A u, v \in MatchedWithoutEscalation :
        /\ DominantConfidence(verdicts[u]) = DominantConfidence(verdicts[v])
             => verdicts[u].threat_level = verdicts[v].threat_level
        /\ DominantConfidence(verdicts[u]) > DominantConfidence(verdicts[v])
             => ThreatLevelValue(verdicts[u].threat_level)
                   >= ThreatLevelValue(verdicts[v].threat_level)

\* C19: every request answered with a detected violation changes a trust record (a
\* profile of the attacker manager or a record of the ledger) in the step that
\* returns the result.
C19_ViolationUpdatesTrustRecord ==
    [][( /\ system_stats'.total_analyses = system_stats.total_analyses + 1
         /\ last_result'.threat_detected )
       => \/ user_profiles' # user_profiles
          \/ user_trusts' # user_trusts]_vars

\* C20: a result returned after the lookup of the trust record failed, or after the
\* update of the trust record raised, is a result for that request whose action is
\* MONITOR or stricter, never ALLOW.
C20_StorageFailureFailsSafe ==
    /\ last_result.error # "none"
         => /\ last_result.user # "none"
            /\ StrictnessRank(last_result.action_level) >= StrictnessRank("MONITOR")
    /\ \A u \in Answered :
           verdicts[u].handler \notin {"none", "managed"}
           => /\ verdicts[u].user = u
              /\ StrictnessRank(verdicts[u].action_level) >= StrictnessRank("MONITOR")

\* one user has been answered after the update of the trust record raised, and the
\* last request was answered after the lookup of the trust record raised
C20_Witness ==
    /\ last_result.error = "TypeError"
    /\ last_result.user = UnhashableUserId
    /\ \E u \in Answered : verdicts[u].handler = "NameError"

\* C23: normalizing the normalized text of a text gives that normalized text again.
C23_NormalizeIdempotent ==
    [][( /\ normalization_result.calls = 1
         /\ normalization_result'.calls = 2 )
       => normalization_result'.normalized_text = normalization_result.normalized_text]_vars

\* C21: no text longer than MAX_TEXT_LENGTH is handed to the normalizer, and the
\* request that carried such a text is answered with an InputTooLarge result.
C21_OversizeRejected ==
    /\ TextLength(normalization_result.original_text) <= MAX_TEXT_LENGTH
    /\ TextLength(pending_text) > MAX_TEXT_LENGTH => last_result.error = "InputTooLarge"

\* the verdict fields of the result analyze_content computes for a request when
\* neither cache holds an entry
VerdictOf(result) ==
    <<result.threat_detected, result.threat_level, result.action_level,
      result.detections, result.ethics_level, result.escalation_detected>>

Uncached(result) ==
    _create_final_detection_result(result.user, result.content,
                                   get_user_security_context(user_profiles, result.user))

\* C22: a request answered with a cached detection got an entry younger than
\* cache_ttl and the verdict that is computed for it without the cache, and a
\* request answered with a cached normalization got the normalized text that is
\* computed for its text without the cache.
C22_CacheTransparent ==
    /\ served.detector_hit
         => /\ served.age < cache_ttl
            /\ VerdictOf(last_result) = VerdictOf(Uncached(last_result))
    /\ served.normalizer_hit
         => normalization_result.normalized_text
               = FreshNormalization(pending_text).normalized_text

\* the last request found a threat and was answered from both caches, with a
\* detection entry one clock step old, at a time when an entry stored at the start
\* has passed cache_ttl
C22_Witness ==
    /\ served.detector_hit /\ served.normalizer_hit
    /\ served.age = ClockStep
    /\ clock >= cache_ttl
    /\ last_result.threat_detected

\* the set of the results of a list
ResultSet(results) == {results[i] : i \in 1..Len(results)}

\* C24: whatever the order in which the rule categories are evaluated,
\* detect_all_threats returns the set of matches, each with the score, that it
\* returns with the categories in the order of the source.
C24_OrderIndependent ==
    returned.returned
    => ResultSet(returned.value)
          = ResultSet(detect_all_threats_in_order(Catalog, invoked.matched))

\* a call with the categories in another order returned two matches of equal
\* confidence in another sequence than the order of the source gives
C24_Witness ==
    /\ returned.returned
    /\ invoked.order # Catalog
    /\ Len(returned.value) >= 2
    /\ returned.value[1].confidence = returned.value[2].confidence
    /\ returned.value # detect_all_threats_in_order(Catalog, invoked.matched)

\* C25: every match detect_all_threats returns carries a confidence between 0 and
\* 1.0 (in tenths, 0..10).
C25_ConfidenceInUnitInterval ==
    returned.returned
    => \A i \in 1..Len(returned.value) : returned.value[i].confidence \in 0..10

\* the stricter of two actions in the order ALLOW < MONITOR < RESTRICT < SHIELD <
\* BLOCK < TERMINATE
Stricter(a, b) == IF StrictnessRank(a) >= StrictnessRank(b) THEN a ELSE b

\* C26: for an ethics level that is neither DESTRUCTIVE nor VIRTUOUS, the action
\* make_final_judgment returns is the stricter of the action mapped to the ethics
\* level and the technical recommended action.
C26_JudgmentTakesStricter ==
    /\ invoked.function = "make_final_judgment"
    /\ returned.returned
    /\ invoked.ethics_level \notin {"DESTRUCTIVE", "VIRTUOUS"}
    => returned.value = Stricter(action_mapping(invoked.ethics_level),
                                 invoked.recommended_action)

\* C27: the action after the financial-responsibility integration is at least as
\* strict as the action decided before it.
C27_FinancialNeverWeakens ==
    /\ invoked.function = "integrate_financial_responsibility"
    /\ returned.returned
    => StrictnessRank(returned.value.action_level)
          >= StrictnessRank(invoked.original.action_level)

\* the strictest of the actions reported in system_results, ALLOW when none is
RECURSIVE Strictest(_)
Strictest(system_results) ==
    IF system_results = <<>> THEN "ALLOW"
    ELSE IF Head(system_results) = "none" THEN Strictest(Tail(system_results))
    ELSE Stricter(Head(system_results), Strictest(Tail(system_results)))

\* C28: the final action of the coordinator is the strictest action reported by
\* an executed system, and ALLOW when no system reports one.
C28_CoordinatorTakesStrictest ==
    /\ invoked.function = "_determine_final_action"
    /\ returned.returned
    => returned.value = Strictest(invoked.system_results)

\* C29: every request that process_request enqueues eventually has its future
\* completed, with an analysis result or with an error result.
C29_EveryFutureCompleted ==
    \A i \in TaskIds :
        (tasks[i].state = "queued") ~> (tasks[i].future_result \in {"result", "error"})

\* the tasks a worker has taken from the queue and not finished: handed to the
\* executor, waiting for one of its threads or running on one
HeldByWorkers == {t \in TaskIds : tasks[t].state \in {"submitted", "executing"}}

\* C30: active_tasks is the number of tasks workers are executing, and lies
\* between 0 and max_workers.
C30_ActiveTasksWithinWorkers ==
    /\ active_tasks = Cardinality(HeldByWorkers)
    /\ active_tasks \in 0..max_workers

=============================================================================
